---- MODULE Spec2Model ----
(***************************************************************************)
(* Cresca Campus client: view-state stores, contract repositories, the     *)
(* ledger gateway and the wallet record, as a state machine.               *)
(*                                                                         *)
(* A store action is an async function.  JavaScript runs it to completion  *)
(* between two awaits, so every action of the model is the code from one   *)
(* resolved await to the next pending one.  A task slot holds one running  *)
(* store action: pc is the await it is suspended at and loc its locals.    *)
(***************************************************************************)
EXTENDS Integers, Sequences, FiniteSets, TLC

(***************************************************************************)
(* Bounds of the model                                                     *)
(***************************************************************************)
MaxTasks == 2        \* store actions that may be in flight together
MaxWrites == 1       \* store write actions invoked in one behaviour
MaxReads == 1        \* store read actions invoked in one behaviour
MaxAmount == 2       \* largest amount a caller passes
MaxIds == 2          \* entity ids 0 .. MaxIds-1 a caller passes
MaxClock == 3        \* latest second of the wall clock
MaxRepeat == 2       \* reads of an unchanged ledger in one behaviour
MaxItems == 2        \* entries of one key/value state on the wire
MaxCalls == 3
MaxKeys == 2         \* secret keys algosdk.generateAccount can draw

(***************************************************************************)
(* Program constants                                                       *)
(***************************************************************************)
confirmationRounds == 4
fundraisingAppId == 755399775
soulboundTicketAppId == 755399774
daoTreasuryAppId == 755399773
expenseSplitterAppId == 755399831

NoWalletMsg == "No wallet found. Please create or import a wallet first."
EventNotFoundMsg == "Event not found"
\* messages of failures raised outside the repository (SDK, transport)
TimeoutMsg == "Transaction not confirmed after 4 rounds"
NetworkMsg == "Network request failed"
RejectedMsg == "logic eval error"
EmptyMsg == ""
TransportMsgs == {NetworkMsg, EmptyMsg}

\* CampaignStatus
ACTIVE == 0
SUCCESSFUL == 1
FAILED == 2
CANCELLED == 3

None == <<>>
Some(x) == <<x>>

Tasks == 1..MaxTasks
Ids == 0..(MaxIds - 1)       \* the ids a caller passes
Slots == 0..MaxIds           \* the ids an application can hold
Amounts == 1..MaxAmount
Stores == {"fund", "dao", "ticket", "split", "wallet"}

VARIABLES
  store,            \* the store this behaviour exercises
  walletRecord,     \* AsyncStorage item '@cresca_wallet'
  now,              \* wall clock, seconds
  fundApp,          \* state of the fundraising application
  daoApp,           \* state of the DAO treasury application
  ticketApp,        \* state of the soulbound ticket application
  splitApp,         \* state of the expense splitter application
  acct,             \* the wallet's account on the ledger
  isLoading, error, lastTransaction, hasOptedIn, isSigner,
  campaigns, activeCampaigns, userDonations, stats,
  treasuryState, proposals,
  events, userTickets,
  splitState, memberState,
  address, balance, isInitialized,
  pc, loc,          \* per task slot: the await it is suspended at, its locals
  result,           \* the settlement the last step delivered to a caller, if any
  writes, reads,    \* store write and read actions invoked so far
  appInfo,          \* a node response handed to the state decoder, if any
  decoded,          \* what the decoder or an entity reader made of appInfo
  created,          \* the accounts createAndSaveWallet has returned to its callers
  currentAccount    \* WalletService.currentAccount

chainVars == <<walletRecord, now, fundApp, daoApp, ticketApp, splitApp, acct>>
flagVars == <<isLoading, error, lastTransaction, hasOptedIn, isSigner>>
fundCache == <<campaigns, activeCampaigns, userDonations, stats>>
daoCache == <<treasuryState, proposals>>
ticketCache == <<events, userTickets>>
splitCache == <<splitState, memberState>>
walletCache == <<address, balance, isInitialized>>
cacheVars == <<fundCache, daoCache, ticketCache, splitCache, walletCache>>
ops == <<writes, reads>>
taskVars == <<pc, loc, result, ops>>
vars == <<store, chainVars, flagVars, cacheVars, taskVars, appInfo, decoded, created,
          currentAccount>>

(***************************************************************************)
(* Wallet                                                                  *)
(***************************************************************************)
TheWallet == [address |-> "ADDR1", mnemonic |-> "m1"]
\* the stored text "undefined", which JSON.parse rejects
Unparsable == [address |-> "undefined", mnemonic |-> "undefined"]

\* WalletService.getSecretKeyFromMnemonic: the key is a function of the
\* mnemonic alone
getSecretKeyFromMnemonic(mnemonic) == IF mnemonic = "m1" THEN 11 ELSE 12

(***************************************************************************)
(* Transactions: skeleton, group id, signature, submission bytes           *)
(***************************************************************************)
PayCode == 1
ApplCode == 2
AddrCode(a) == IF a = "ADDR1" THEN 21 ELSE IF a = "APPADDR" THEN 22 ELSE 23
SuggestedParams == [fee |-> 3, firstValid |-> 7]

makePaymentTxn(sender, receiver, amount, sp) ==
  [type |-> PayCode, snd |-> sender, rcv |-> receiver, amt |-> amount,
   app |-> 0, args |-> <<>>, fee |-> sp.fee, fv |-> sp.firstValid, grp |-> <<>>]

makeApplicationCallTxn(sender, appIndex, appArgs, sp) ==
  [type |-> ApplCode, snd |-> sender, rcv |-> "", amt |-> 0,
   app |-> appIndex, args |-> appArgs, fee |-> sp.fee, fv |-> sp.firstValid,
   grp |-> <<>>]

\* canonical bytes of a transaction (msgpack in the SDK): a payment and an
\* application call have different lengths
EncodeTxn(txn) ==
  IF txn.type = PayCode
  THEN <<PayCode, AddrCode(txn.snd), AddrCode(txn.rcv), txn.amt, txn.fee, txn.fv>>
         \o txn.grp
  ELSE <<ApplCode, AddrCode(txn.snd), txn.app % 256, txn.fee, txn.fv>>
         \o txn.args \o txn.grp

RECURSIVE SumSeq(_)
SumSeq(s) == IF s = <<>> THEN 0 ELSE Head(s) + SumSeq(Tail(s))

RECURSIVE FlattenEnc(_)
FlattenEnc(txns) ==
  IF txns = <<>> THEN <<>>
  ELSE <<Len(EncodeTxn(Head(txns)))>> \o EncodeTxn(Head(txns)) \o FlattenEnc(Tail(txns))

\* algosdk.computeGroupID: a digest of the ordered members as they are
\* when it is called (collision free: the ordered, length-prefixed bytes)
computeGroupID(txns) == FlattenEnc(txns)

\* algosdk.assignGroupID: stamps the digest on every member
assignGroupID(txns) ==
  [k \in 1..Len(txns) |-> [txns[k] EXCEPT !.grp = computeGroupID(txns)]]

\* WalletService.signTransaction: the signed blob is the transaction's bytes
\* followed by the signature, a function of the key and those bytes
signTransaction(txn, secretKey) ==
  EncodeTxn(txn) \o <<secretKey, SumSeq(EncodeTxn(txn)) % 256>>

\* Uint8Array.prototype.set(src, offset)
SetAt(arr, src, offset) ==
  [k \in 1..Len(arr) |->
     IF k > offset /\ k <= offset + Len(src) THEN src[k - offset] ELSE arr[k]]

RECURSIVE CopyAll(_, _, _)
CopyAll(signedTxn, combined, offset) ==
  IF signedTxn = <<>> THEN combined
  ELSE CopyAll(Tail(signedTxn), SetAt(combined, Head(signedTxn), offset),
               offset + Len(Head(signedTxn)))

RECURSIVE TotalLength(_)
TotalLength(signedTxn) ==
  IF signedTxn = <<>> THEN 0 ELSE Len(Head(signedTxn)) + TotalLength(Tail(signedTxn))

\* the members copied last to first
sendTransactionReversed(signedTxn) ==
  LET rev == [k \in 1..Len(signedTxn) |-> signedTxn[Len(signedTxn) + 1 - k]]
  IN CopyAll(rev, [k \in 1..TotalLength(signedTxn) |-> 0], 0)

\* AlgorandClientService.sendTransaction, the array branch: the bytes handed
\* to sendRawTransaction
sendTransaction(signedTxn) ==
  CopyAll(signedTxn, [k \in 1..TotalLength(signedTxn) |-> 0], 0)

(***************************************************************************)
(* Node responses and AlgorandClientService's state decoder.  A byte       *)
(* string is a sequence of chunks: an ASCII run stands for itself and      *)
(* HighByte stands for one byte above 0x7f.  A scalar on the wire is the   *)
(* byte array itself (enc = "raw") or base64 text (enc = "b64"), which     *)
(* need not be valid base64.                                               *)
(***************************************************************************)
HighByte == "<C8>"
Raw(bytes) == [enc |-> "raw", valid |-> TRUE, bytes |-> bytes]
B64(bytes) == [enc |-> "b64", valid |-> TRUE, bytes |-> bytes]
BadB64 == [enc |-> "b64", valid |-> FALSE, bytes |-> <<>>]

\* new TextDecoder().decode(bytes): UTF-8, a byte that starts no valid
\* sequence becomes U+FFFD
RECURSIVE TextDecoderDecode(_)
TextDecoderDecode(bytes) ==
  IF bytes = <<>> THEN ""
  ELSE (IF Head(bytes) = HighByte THEN "<U+FFFD>" ELSE Head(bytes))
       \o TextDecoderDecode(Tail(bytes))

\* atob(text): the binary string, one character U+0000..U+00FF per byte
RECURSIVE atob(_)
atob(bytes) ==
  IF bytes = <<>> THEN ""
  ELSE (IF Head(bytes) = HighByte THEN "<U+00C8>" ELSE Head(bytes))
       \o atob(Tail(bytes))

\* the decoded Map's values: a Uint8Array or a number
BytesValue(bytes) == [isBytes |-> TRUE, bytes |-> bytes, num |-> 0]
NumberValue(n) == [isBytes |-> FALSE, bytes |-> <<>>, num |-> n]
EmptyMap == [k \in {} |-> NumberValue(0)]
Threw == [threw |-> TRUE, state |-> EmptyMap]

\* the decoder's loop body: item.key is TextDecoder-decoded when it is a
\* Uint8Array and atob-decoded otherwise
keyStrOf(item) ==
  IF item.key.enc = "raw" THEN TextDecoderDecode(item.key.bytes)
  ELSE atob(item.key.bytes)

\* Uint8Array.from(atob(value.bytes), c => c.charCodeAt(0)) gives back the
\* encoded bytes; Number(value.uint) the integer
valueOf(value) ==
  IF value.type = 1 THEN BytesValue(value.bytes.bytes)
  ELSE NumberValue(value.uint)

\* reading value.type of an entry without a value is a TypeError, atob of
\* text that is not base64 an InvalidCharacterError
ItemThrows(item) ==
  \/ ~item.key.valid
  \/ item.value = None
  \/ item.value[1].type = 1 /\ ~item.value[1].bytes.valid

\* the for-of loop of getAppGlobalState and getAppLocalState: nothing in it
\* catches, so the first entry that throws rejects the whole call
RECURSIVE DecodeItems(_, _)
DecodeItems(items, state) ==
  IF items = <<>> THEN [threw |-> FALSE, state |-> state]
  ELSE IF ItemThrows(Head(items)) THEN Threw
  ELSE DecodeItems(Tail(items),
         (keyStrOf(Head(items)) :> valueOf(Head(items).value[1])) @@ state)

\* x.camel || x['kebab'] || []
Field(fields, camel, kebab) ==
  IF camel \in DOMAIN fields THEN fields[camel]
  ELSE IF kebab \in DOMAIN fields THEN fields[kebab]
  ELSE <<>>

\* AlgorandClientService.getAppGlobalState, after the response arrived
getAppGlobalState(info) ==
  DecodeItems(Field(info.fields, "globalState", "global-state"), EmptyMap)

\* appsLocalState.find(app => Number(app.id) === appId)
RECURSIVE FindApp(_, _)
FindApp(apps, appId) ==
  IF apps = <<>> THEN None
  ELSE IF Head(apps).id = appId THEN Some(Head(apps))
  ELSE FindApp(Tail(apps), appId)

\* AlgorandClientService.getAppLocalState, after the response arrived
getAppLocalState(info, appId) ==
  LET appLocalState ==
        FindApp(Field(info.fields, "appsLocalState", "apps-local-state"), appId)
  IN IF appLocalState = None THEN [threw |-> FALSE, state |-> EmptyMap]
     ELSE DecodeItems(Field(appLocalState[1].fields, "keyValue", "key-value"),
                      EmptyMap)

(***************************************************************************)
(* Ledger: the fundraising application (the contract is deployed on chain; *)
(* the client sees it through its key/value state)                         *)
(***************************************************************************)
NoCampaign == [titled |-> FALSE, goal |-> 0, raised |-> 0, deadline |-> 0,
               cancelled |-> FALSE]

\* the deadline tested before the goal
CampaignStatusFailedFirst(cancelled, raised, goal, deadline, nowv) ==
  IF cancelled THEN CANCELLED
  ELSE IF nowv > deadline THEN FAILED
  ELSE IF raised >= goal THEN SUCCESSFUL
  ELSE ACTIVE

\* the deadline second itself counted as past
CampaignStatusAtDeadline(cancelled, raised, goal, deadline, nowv) ==
  IF cancelled THEN CANCELLED
  ELSE IF raised >= goal THEN SUCCESSFUL
  ELSE IF nowv >= deadline THEN FAILED
  ELSE ACTIVE

\* FundraisingRepository.getCampaign, the derived status
CampaignStatusOf(cancelled, raised, goal, deadline, nowv) ==
  IF cancelled THEN CANCELLED
  ELSE IF raised >= goal THEN SUCCESSFUL
  ELSE IF nowv > deadline THEN FAILED
  ELSE ACTIVE

\* getCampaign reading the goal where it should read the raised amount
getCampaignWrongKey(resp, campaignId, nowv) ==
  LET c == resp.snap[1].camp[campaignId] IN
  IF resp.io = "fail" THEN None
  ELSE IF ~c.titled THEN None
  ELSE Some([id |-> campaignId, goal |-> c.goal, raised |-> c.goal,
             deadline |-> c.deadline,
             status |-> CampaignStatusOf(c.cancelled, c.raised, c.goal,
                                         c.deadline, nowv)])

\* getCampaign counting the calls it has served in the entity it returns
getCampaignCounting(resp, campaignId, nowv) ==
  LET c == resp.snap[1].camp[campaignId] IN
  IF resp.io = "fail" THEN None
  ELSE IF ~c.titled THEN None
  ELSE Some([id |-> campaignId, goal |-> c.goal, raised |-> c.raised + nowv,
             deadline |-> c.deadline,
             status |-> CampaignStatusOf(c.cancelled, c.raised, c.goal,
                                         c.deadline, nowv)])

\* FundraisingRepository.getCampaign: a failed read is caught and yields
\* null, as does a state without the campaign's title key
getCampaign(resp, campaignId, nowv) ==
  LET c == resp.snap[1].camp[campaignId] IN
  IF resp.io = "fail" THEN None
  ELSE IF ~c.titled THEN None
  ELSE Some([id |-> campaignId, goal |-> c.goal, raised |-> c.raised,
             deadline |-> c.deadline,
             status |-> CampaignStatusOf(c.cancelled, c.raised, c.goal,
                                         c.deadline, nowv)])

(***************************************************************************)
(* Application arguments.  A JavaScript string is its sequence of UTF-16   *)
(* code units: "A" a unit below U+0080, "<E9>" and "<20AC>" units that     *)
(* take two and three bytes in UTF-8, "<D83D>" "<DE00>" a surrogate pair.  *)
(***************************************************************************)
\* String.prototype.slice(0, end): the first `end` code units
slice(str, end) == SubSeq(str, 1, IF end < Len(str) THEN end ELSE Len(str))

\* new TextEncoder().encode(str): one to four bytes per character, a
\* surrogate without its partner encoded as U+FFFD
RECURSIVE TextEncoderEncode(_)
TextEncoderEncode(str) ==
  IF str = <<>> THEN <<>>
  ELSE IF Len(str) >= 2 /\ str[1] = "<D83D>" /\ str[2] = "<DE00>"
  THEN <<HighByte, HighByte, HighByte, HighByte>>
       \o TextEncoderEncode(Tail(Tail(str)))
  ELSE (CASE str[1] = "<E9>" -> <<HighByte, HighByte>>
          [] str[1] \in {"<20AC>", "<D83D>", "<DE00>"} ->
               <<HighByte, HighByte, HighByte>>
          [] OTHER -> <<str[1]>>)
       \o TextEncoderEncode(Tail(str))

\* algosdk.encodeUint64: eight bytes, big-endian
encodeUint64(n) ==
  LET RECURSIVE BigEndian(_, _)
      BigEndian(m, len) ==
        IF len = 0 THEN <<>> ELSE BigEndian(m \div 256, len - 1) \o <<m % 256>>
  IN BigEndian(n, 8)

\* String(value) of a Uint8Array: its bytes in decimal, joined by commas
RECURSIVE StringOfBytes(_)
StringOfBytes(bytes) ==
  IF bytes = <<>> THEN ""
  ELSE (IF Head(bytes) = HighByte THEN "200" ELSE "65")
       \o (IF Len(bytes) = 1 THEN "" ELSE "," \o StringOfBytes(Tail(bytes)))

\* the condition testing the length of a byte string
TruthyNonEmpty(state, key) ==
  key \in DOMAIN state
  /\ IF state[key].isBytes THEN state[key].bytes # <<>> ELSE state[key].num # 0

\* globalState.get(key) taken as a condition: a Uint8Array is truthy even
\* when empty, a number when it is not zero, a missing key never
Truthy(state, key) ==
  key \in DOMAIN state /\ (state[key].isBytes \/ state[key].num # 0)

\* Number(state.get(key) || dflt), for a key the contract keeps as a uint
NumberOr(state, key, dflt) ==
  IF Truthy(state, key) THEN state[key].num ELSE dflt

\* FundraisingRepository.getCampaign, from the decoded global state on
parseCampaign(globalState, campaignId, nowv) ==
  LET campaignKey == "campaign_" \o ToString(campaignId)
      deadline == NumberOr(globalState, campaignKey \o "_deadline", 0)
      goal == NumberOr(globalState, campaignKey \o "_goal", 0)
      raised == NumberOr(globalState, campaignKey \o "_raised", 0)
  IN IF ~Truthy(globalState, campaignKey \o "_title") THEN None
     ELSE Some([id |-> campaignId,
                title |-> IF globalState[campaignKey \o "_title"].isBytes
                          THEN StringOfBytes(globalState[campaignKey \o "_title"].bytes)
                          ELSE ToString(globalState[campaignKey \o "_title"].num),
                goal |-> goal, raised |-> raised,
                deadline |-> deadline,
                status |-> CampaignStatusOf(
                             Truthy(globalState, campaignKey \o "_cancelled"),
                             raised, goal, deadline, nowv)])

\* SoulboundTicketRepository.getEvent, from the decoded global state on
parseEvent(globalState, eventId) ==
  LET eventKey == "event_" \o ToString(eventId) IN
  IF ~Truthy(globalState, eventKey \o "_name") THEN None
  ELSE Some([id |-> eventId,
             price |-> NumberOr(globalState, eventKey \o "_price", 0),
             soldTickets |-> NumberOr(globalState, eventKey \o "_sold", 0)])

\* DAOTreasuryRepository.getTreasuryState, from the decoded global state and
\* the application account's balance on
parseTreasuryState(globalState, bal) ==
  [threshold |-> NumberOr(globalState, "threshold", 2),
   signerCount |-> NumberOr(globalState, "signer_count", 0),
   proposalCount |-> NumberOr(globalState, "proposal_count", 0),
   balance |-> bal]

\* FundraisingRepository.getUserDonations: a failed read is caught and
\* yields the empty list
getUserDonations(resp) ==
  IF resp.io = "fail" THEN <<>>
  ELSE LET app == resp.snap[1] IN
       [k \in 1..Len(app.donations) |->
          [id |-> k - 1, campaignId |-> app.donations[k].campaignId,
           amount |-> app.donations[k].amount]]

\* FundraisingRepository.getContractStats: a failed read is caught and
\* yields null
getContractStats(resp) ==
  IF resp.io = "fail" THEN None
  ELSE Some([totalCampaigns |-> resp.snap[1].count,
             totalRaised |-> resp.snap[1].totalRaised])

\* The contract's rule for accepting an application call
FundAccepts(app, act, id, nowv) ==
  CASE act = "donate" ->
         /\ app.camp[id].titled
         /\ CampaignStatusOf(app.camp[id].cancelled, app.camp[id].raised,
                             app.camp[id].goal, app.camp[id].deadline, nowv) = ACTIVE
    [] act = "createCampaign" -> app.count <= MaxIds
    [] act \in {"cancelCampaign", "claimFunds", "requestRefund"} -> app.camp[id].titled
    [] OTHER -> TRUE

\* The contract's effect once the call is confirmed
FundApply(app, act, id, amt, nowv) ==
  CASE act = "donate" ->
         [app EXCEPT !.camp[id].raised = @ + amt,
                     !.totalRaised = @ + amt,
                     !.donations = Append(@, [campaignId |-> id, amount |-> amt])]
    [] act = "createCampaign" ->
         [app EXCEPT !.camp[app.count] = [titled |-> TRUE, goal |-> amt, raised |-> 0,
                                          deadline |-> nowv + 1, cancelled |-> FALSE],
                     !.count = @ + 1]
    [] act = "cancelCampaign" -> [app EXCEPT !.camp[id].cancelled = TRUE]
    [] act = "optIn" -> [app EXCEPT !.optedIn = TRUE]
    [] OTHER -> app

(***************************************************************************)
(* Ledger: the DAO treasury, soulbound ticket and expense splitter         *)
(* applications                                                            *)
(***************************************************************************)
DaoAccepts(app, act, id) ==
  CASE act \in {"approveProposal", "executeProposal"} -> id < app.proposalCount
    [] OTHER -> TRUE

DaoApply(app, act, amt) ==
  CASE act = "addSigner" -> [app EXCEPT !.signerCount = @ + 1]
    [] act = "createProposal" -> [app EXCEPT !.proposalCount = @ + 1]
    [] act = "deposit" -> [app EXCEPT !.balance = @ + amt]
    [] act = "optIn" -> [app EXCEPT !.optedIn = TRUE]
    [] OTHER -> app

NoEvent == [named |-> FALSE, price |-> 0, sold |-> 0]

TicketAccepts(app, act, id) ==
  CASE act = "purchaseTicket" -> app.ev[id].named /\ id \notin app.tickets
    [] act = "checkIn" -> id \in app.tickets
    [] act = "createEvent" -> app.count <= MaxIds
    [] OTHER -> TRUE

TicketApply(app, act, id, amt) ==
  CASE act = "createEvent" ->
         [app EXCEPT !.ev[app.count] = [named |-> TRUE, price |-> amt, sold |-> 0],
                     !.count = @ + 1]
    [] act = "purchaseTicket" ->
         [app EXCEPT !.ev[id].sold = @ + 1, !.tickets = @ \cup {id}]
    [] act = "optIn" -> [app EXCEPT !.optedIn = TRUE]
    [] OTHER -> app

SplitApply(app, act, amt) ==
  CASE act = "addExpense" ->
         [app EXCEPT !.expenseCount = @ + 1, !.totalPool = @ + amt,
                     !.netBalance = IF app.optedIn THEN @ + amt ELSE @]
    [] act = "markSettled" -> [app EXCEPT !.isSettled = TRUE]
    [] act = "optIn" -> [app EXCEPT !.optedIn = TRUE]
    [] OTHER -> app

\* SoulboundTicketRepository.getEvent: a failed read is caught and yields
\* null, as does a state without the event's name key
getEvent(resp, eventId) ==
  LET e == resp.snap[1].ev[eventId] IN
  IF resp.io = "fail" THEN None
  ELSE IF ~e.named THEN None
  ELSE Some([id |-> eventId, price |-> e.price, soldTickets |-> e.sold])

\* SoulboundTicketRepository.getContractState
getContractState(resp) ==
  IF resp.io = "fail" THEN None ELSE Some([eventCount |-> resp.snap[1].count])

\* SoulboundTicketRepository.getUserTickets: one ticket per local-state key
RECURSIVE TicketsOf(_)
TicketsOf(S) ==
  IF S = {} THEN <<>>
  ELSE LET e == CHOOSE x \in S : \A y \in S : x <= y
       IN <<[eventId |-> e, checkedIn |-> FALSE]>> \o TicketsOf(S \ {e})

getUserTickets(resp) ==
  IF resp.io = "fail" THEN <<>> ELSE TicketsOf(resp.snap[1].tickets)

\* SoulboundTicketRepository.verifyTicket
verifyTicket(resp, eventId) ==
  IF resp.io = "fail" THEN FALSE ELSE eventId \in resp.snap[1].tickets

\* DAOTreasuryRepository.getProposal: a placeholder entity for any id
getProposal(resp, proposalId) ==
  IF resp.io = "fail" THEN None
  ELSE Some([id |-> proposalId, amount |-> 0, status |-> 0, approvalCount |-> 0])

\* DAOTreasuryRepository.isSigner
isSignerOf(resp) == IF resp.io = "fail" THEN FALSE ELSE resp.snap[1].isSigner

\* ExpenseSplitterRepository.getExpenseSplitState: a failed read is caught
\* and yields null
getExpenseSplitState(resp) ==
  IF resp.io = "fail" THEN None
  ELSE Some([memberCount |-> resp.snap[1].memberCount,
             expenseCount |-> resp.snap[1].expenseCount,
             isSettled |-> resp.snap[1].isSettled,
             totalPool |-> resp.snap[1].totalPool])

\* ExpenseSplitterRepository.getMemberState: a failed read is caught and
\* yields the entity of an address that has not opted in, as does an empty
\* local state
getMemberState(resp) ==
  IF resp.io = "fail" \/ ~resp.snap[1].optedIn
  THEN [netBalance |-> 0, isOwed |-> FALSE, hasOptedIn |-> FALSE]
  ELSE [netBalance |-> IF resp.snap[1].balanceSign = 1 THEN -resp.snap[1].netBalance
                       ELSE resp.snap[1].netBalance,
        isOwed |-> resp.snap[1].balanceSign = 0 /\ resp.snap[1].netBalance > 0,
        hasOptedIn |-> TRUE]

(***************************************************************************)
(* Repository write operations: the transactions they build, sign and send *)
(***************************************************************************)
MethodCode(act) ==
  CASE act = "donate" -> 31 [] act = "createCampaign" -> 32
    [] act = "claimFunds" -> 33 [] act = "requestRefund" -> 34
    [] act = "cancelCampaign" -> 35 [] act = "purchaseTicket" -> 36
    [] act = "createEvent" -> 37 [] act = "checkIn" -> 38
    [] act = "addSigner" -> 39 [] act = "createProposal" -> 40
    [] act = "approveProposal" -> 41 [] act = "executeProposal" -> 42
    [] act = "addExpense" -> 43 [] act = "markSettled" -> 44
    [] OTHER -> 30

AppIdOf(s) ==
  CASE s = "fund" -> fundraisingAppId
    [] s = "dao" -> daoTreasuryAppId
    [] s = "ticket" -> soulboundTicketAppId
    [] OTHER -> expenseSplitterAppId

\* what a repository hands to sendTransaction and what reaches the node
Single(txn, signed) == [txns |-> <<txn>>, sent |-> <<signed>>, blob |-> signed]
Grouped(txns, signedSeq) ==
  [txns |-> txns, sent |-> signedSeq, blob |-> sendTransaction(signedSeq)]

\* donate sending the payment on its own
donatePaymentOnly(wallet, campaignId, amount, isAnonymous) ==
  LET secretKey == getSecretKeyFromMnemonic(wallet.mnemonic)
      paymentTxn == makePaymentTxn(wallet.address, "APPADDR", amount, SuggestedParams)
  IN Single(paymentTxn, signTransaction(paymentTxn, secretKey))

\* FundraisingRepository.donate: payment + application call, grouped, signed
\* in that order and sent as one array
donateTxns(wallet, campaignId, amount, isAnonymous) ==
  LET secretKey == getSecretKeyFromMnemonic(wallet.mnemonic)
      paymentTxn == makePaymentTxn(wallet.address, "APPADDR", amount, SuggestedParams)
      appCallTxn == makeApplicationCallTxn(wallet.address, fundraisingAppId,
                      <<MethodCode("donate"), campaignId, IF isAnonymous THEN 1 ELSE 0>>,
                      SuggestedParams)
      grouped == assignGroupID(<<paymentTxn, appCallTxn>>)
      signedPayment == signTransaction(grouped[1], secretKey)
      signedAppCall == signTransaction(grouped[2], secretKey)
  IN Grouped(grouped, <<signedPayment, signedAppCall>>)

\* the repository operations that send one application call
appCallTxns(wallet, appId, act, id, amt) ==
  LET secretKey == getSecretKeyFromMnemonic(wallet.mnemonic)
      appCallTxn == makeApplicationCallTxn(wallet.address, appId,
                      <<MethodCode(act), id, amt>>, SuggestedParams)
  IN Single(appCallTxn, signTransaction(appCallTxn, secretKey))

\* SoulboundTicketRepository.purchaseTicket: payment of the price of the
\* event it read + application call, grouped, signed in that order and sent
\* as one array
purchaseTicketTxns(wallet, eventId, price) ==
  LET secretKey == getSecretKeyFromMnemonic(wallet.mnemonic)
      paymentTxn == makePaymentTxn(wallet.address, "APPADDR", price, SuggestedParams)
      appCallTxn == makeApplicationCallTxn(wallet.address, soulboundTicketAppId,
                      <<MethodCode("purchaseTicket"), eventId>>, SuggestedParams)
      grouped == assignGroupID(<<paymentTxn, appCallTxn>>)
      signedPayment == signTransaction(grouped[1], secretKey)
      signedAppCall == signTransaction(grouped[2], secretKey)
  IN Grouped(grouped, <<signedPayment, signedAppCall>>)

\* DAOTreasuryRepository.deposit: one payment to the application address
depositTxns(wallet, amount) ==
  LET secretKey == getSecretKeyFromMnemonic(wallet.mnemonic)
      paymentTxn == makePaymentTxn(wallet.address, "APPADDR", amount, SuggestedParams)
  IN Single(paymentTxn, signTransaction(paymentTxn, secretKey))

\* the transactions of the repository operation a task is running
BuildTxns(l) ==
  CASE l.act = "donate" -> donateTxns(l.wallet[1], l.id, l.amt, l.flag)
    [] l.act = "purchaseTicket" -> purchaseTicketTxns(l.wallet[1], l.id, l.amt)
    [] l.act = "deposit" -> depositTxns(l.wallet[1], l.amt)
    [] OTHER -> appCallTxns(l.wallet[1], AppIdOf(store), l.act, l.id, l.amt)

(***************************************************************************)
(* Tasks                                                                   *)
(***************************************************************************)
NoLoc == [act |-> "", kind |-> "", id |-> 0, amt |-> 0, flag |-> FALSE,
          fallback |-> "", refetch |-> "", nested |-> FALSE, wallet |-> None,
          op |-> 0, rounds |-> 0, txns |-> <<>>, sent |-> <<>>, blob |-> <<>>,
          io |-> "none", snap |-> None, i |-> 0, n |-> 0, acc |-> <<>>,
          txres |-> None]

\* a new action runs in the lowest free slot
FreeSlot(t) ==
  /\ pc[t] = "idle"
  /\ \A u \in Tasks : u < t => pc[u] # "idle"

AppState ==
  CASE store = "fund" -> fundApp
    [] store = "dao" -> daoApp
    [] store = "ticket" -> ticketApp
    [] store = "split" -> splitApp
    [] OTHER -> acct

\* the node answers a pending read with the state it has at that moment, or
\* the request fails in transport
LedgerServe(t) ==
  /\ loc[t].io = "pending"
  /\ \/ loc' = [loc EXCEPT ![t].io = "ok", ![t].snap = Some(AppState)]
     \/ loc' = [loc EXCEPT ![t].io = "fail"]
  /\ result' = None
  /\ UNCHANGED <<store, appInfo, decoded, created, currentAccount, chainVars, flagVars, cacheVars, pc, ops>>

Answered(t) == loc[t].io \in {"ok", "fail"}

\* the settlement of the promise of store action act
Resolved(act, v) == Some([act |-> act, ok |-> TRUE, msg |-> "", value |-> v])
Rejected(act, m) == Some([act |-> act, ok |-> FALSE, msg |-> m, value |-> None])

\* the action in slot t settles its promise with r
Retire(t, r) ==
  /\ pc' = [pc EXCEPT ![t] = "idle"]
  /\ loc' = [loc EXCEPT ![t] = NoLoc]
  /\ result' = r
  /\ UNCHANGED ops

\* a read is issued: the task waits at label for the node's answer
Await(t, label, l) ==
  /\ pc' = [pc EXCEPT ![t] = label]
  /\ loc' = [loc EXCEPT ![t] = [l EXCEPT !.io = "pending", !.snap = None]]
  /\ result' = None
  /\ UNCHANGED ops

(***************************************************************************)
(* Store write actions, common shape                                       *)
(*   set({isLoading: true, error: null}); try { result = await repo.X();   *)
(*   set({lastTransaction: result}); await get().fetchY(); return result } *)
(*   catch (error) { errorMsg = error.message || fallback;                 *)
(*   set({error: errorMsg}); throw new Error(errorMsg) }                   *)
(*   finally { set({isLoading: false}) }                                   *)
(***************************************************************************)
\* the synchronous head of a store write action, up to the repository's
\* await of walletService.loadWallet()
StartWrite(t, act, id, amt, flag, fallback, refetch) ==
  /\ FreeSlot(t)
  /\ writes < MaxWrites
  /\ isLoading' = TRUE
  /\ error' = None
  /\ pc' = [pc EXCEPT ![t] = "loadWallet"]
  /\ loc' = [loc EXCEPT ![t] = [NoLoc EXCEPT !.act = act, !.kind = "write", !.id = id,
                                  !.amt = amt, !.flag = flag, !.fallback = fallback,
                                  !.refetch = refetch, !.wallet = walletRecord,
                                  !.op = writes + 1]]
  /\ result' = None
  /\ writes' = writes + 1
  /\ UNCHANGED <<store, appInfo, decoded, created, currentAccount, chainVars, lastTransaction, hasOptedIn, isSigner, cacheVars, reads>>

\* catch without the fallback message
CatchWriteNoFallback(t, m) ==
  /\ error' = Some(m)
  /\ isLoading' = FALSE
  /\ Retire(t, Rejected(loc[t].act, m))

\* catch and finally of a store write action
CatchWrite(t, m) ==
  LET errorMsg == IF m = EmptyMsg THEN loc[t].fallback ELSE m IN
  /\ error' = Some(errorMsg)
  /\ isLoading' = FALSE
  /\ Retire(t, Rejected(loc[t].act, errorMsg))

\* return result with no finally
ReturnWriteNoFinally(t, l) ==
  /\ isLoading' = isLoading
  /\ Retire(t, Resolved(l.act, l.txres))

\* return result and finally of a store write action
ReturnWrite(t, l) ==
  /\ isLoading' = FALSE
  /\ Retire(t, Resolved(l.act, l.txres))

(***************************************************************************)
(* Store read actions                                                      *)
(***************************************************************************)
FetchOf(l) == IF l.kind = "read" THEN l.act ELSE l.refetch

\* the fetch actions that bracket themselves with isLoading
SetsLoading(fetch) ==
  fetch \in {"fetchActiveCampaigns", "fetchTreasuryState", "fetchUserTickets",
             "fetchContractState", "fetchSplitState"}

\* the await a fetch action first suspends at
FirstLabel(fetch) ==
  CASE fetch = "fetchActiveCampaigns" -> "getActiveCampaigns"
    [] fetch = "fetchTreasuryState" -> "getTreasuryState"
    [] fetch = "fetchContractState" -> "getContractState"
    [] OTHER -> fetch

\* the synchronous head of a store read action
StartRead(t, act, id) ==
  /\ FreeSlot(t)
  /\ reads < MaxReads
  /\ isLoading' = (IF SetsLoading(act) THEN TRUE ELSE isLoading)
  /\ pc' = [pc EXCEPT ![t] = FirstLabel(act)]
  /\ loc' = [loc EXCEPT ![t] = [NoLoc EXCEPT !.act = act, !.kind = "read", !.id = id,
                                  !.io = "pending"]]
  /\ result' = None
  /\ reads' = reads + 1
  /\ UNCHANGED writes
  /\ UNCHANGED <<store, appInfo, decoded, created, currentAccount, chainVars, error, lastTransaction, hasOptedIn, isSigner, cacheVars>>

\* a fetch that rethrows the failure of its read
FinishValueRethrow(t, v) ==
  /\ isLoading' = (IF SetsLoading(FetchOf(loc[t])) \/ loc[t].nested THEN FALSE
                   ELSE isLoading)
  /\ Retire(t, IF loc[t].io = "fail" THEN Rejected(loc[t].act, NetworkMsg)
               ELSE IF loc[t].nested THEN Resolved(loc[t].act, loc[t].txres)
               ELSE Resolved(loc[t].act, v))

\* the end of a fetch that returns v: its own finally, then, when a write
\* action awaited it, that action's return and finally
FinishValue(t, v) ==
  /\ isLoading' = (IF SetsLoading(FetchOf(loc[t])) \/ loc[t].nested THEN FALSE
                   ELSE isLoading)
  /\ Retire(t, IF loc[t].nested THEN Resolved(loc[t].act, loc[t].txres)
               ELSE Resolved(loc[t].act, v))

FinishFetch(t) == FinishValue(t, None)

\* push without findIndex
UpsertPush(list, e) == Append(list, e)

\* findIndex, then replace in place or push
Upsert(list, e) ==
  LET hits == {k \in 1..Len(list) : list[k].id = e.id} IN
  IF hits # {}
  THEN [list EXCEPT ![CHOOSE k \in hits : \A j \in hits : k <= j] = e]
  ELSE Append(list, e)

(***************************************************************************)
(* Repository write operations, step by step                               *)
(***************************************************************************)
Accepts(act, id) ==
  CASE store = "fund" -> FundAccepts(fundApp, act, id, now)
    [] store = "dao" -> DaoAccepts(daoApp, act, id)
    [] store = "ticket" -> TicketAccepts(ticketApp, act, id)
    [] OTHER -> TRUE

\* the repository going on without checking the wallet it loaded
loadWalletDoneUnchecked(t) ==
  /\ pc[t] = "loadWallet"
  /\ pc' = [pc EXCEPT ![t] = "getParams"]
  /\ loc' = [loc EXCEPT ![t].wallet = Some(TheWallet)]
  /\ result' = None
  /\ UNCHANGED <<ops, isLoading, error>>
  /\ UNCHANGED <<store, appInfo, decoded, created, currentAccount, chainVars, lastTransaction, hasOptedIn, isSigner, cacheVars>>

\* walletService.loadWallet() has answered
loadWalletDone(t) ==
  /\ pc[t] = "loadWallet"
  /\ IF loc[t].wallet = None
     THEN /\ CatchWrite(t, NoWalletMsg)
     ELSE /\ IF loc[t].act = "purchaseTicket"
             THEN Await(t, "purchaseGetEvent", loc[t])
             ELSE /\ pc' = [pc EXCEPT ![t] = "getParams"]
                  /\ result' = None
                  /\ UNCHANGED <<loc, ops>>
          /\ UNCHANGED <<isLoading, error>>
  /\ currentAccount' = (IF loc[t].wallet = None THEN currentAccount ELSE loc[t].wallet)
  /\ UNCHANGED <<store, appInfo, decoded, created, chainVars, lastTransaction, hasOptedIn, isSigner, cacheVars>>

\* SoulboundTicketRepository.purchaseTicket: getEvent(eventId) has answered
purchaseGetEventDone(t) ==
  LET event == getEvent(loc[t], loc[t].id) IN
  /\ pc[t] = "purchaseGetEvent" /\ Answered(t)
  /\ IF event = None
     THEN CatchWrite(t, EventNotFoundMsg)
     ELSE /\ pc' = [pc EXCEPT ![t] = "getParams"]
          /\ loc' = [loc EXCEPT ![t].amt = event[1].price, ![t].io = "none",
                                ![t].snap = None]
          /\ result' = None
          /\ UNCHANGED <<ops, isLoading, error>>
  /\ UNCHANGED <<store, appInfo, decoded, created, currentAccount, chainVars, lastTransaction, hasOptedIn, isSigner, cacheVars>>

\* getTransactionParams() has answered: the transactions are built, grouped,
\* signed and handed to sendRawTransaction
getParamsDone(t) ==
  /\ pc[t] = "getParams"
  /\ \/ \E m \in TransportMsgs : CatchWrite(t, m)
     \/ /\ pc' = [pc EXCEPT ![t] = "send"]
        /\ loc' = [loc EXCEPT ![t].txns = BuildTxns(loc[t]).txns,
                              ![t].sent = BuildTxns(loc[t]).sent,
                              ![t].blob = BuildTxns(loc[t]).blob]
        /\ result' = None
        /\ UNCHANGED <<ops, isLoading, error>>
  /\ UNCHANGED <<store, appInfo, decoded, created, currentAccount, chainVars, lastTransaction, hasOptedIn, isSigner, cacheVars>>

\* the store recording the submission and re-fetching without waiting for
\* the confirmation
sendDoneNoWait(t) ==
  LET l == loc[t]
      txres == [txId |-> l.op, confirmed |-> TRUE, appId |-> AppIdOf(store)]
      l2 == [l EXCEPT !.txres = Some(txres), !.nested = TRUE]
  IN
  /\ pc[t] = "send"
  /\ \/ /\ Accepts(l.act, l.id)
        /\ l.refetch # "none"
        /\ lastTransaction' = Some(txres)
        /\ isLoading' = (IF SetsLoading(l.refetch) THEN TRUE ELSE isLoading)
        /\ Await(t, FirstLabel(l.refetch), l2)
        /\ UNCHANGED error
     \/ /\ Accepts(l.act, l.id)
        /\ l.refetch = "none"
        /\ pc' = [pc EXCEPT ![t] = "confirm"]
        /\ loc' = [loc EXCEPT ![t].rounds = confirmationRounds]
        /\ result' = None
        /\ UNCHANGED <<ops, isLoading, error, lastTransaction>>
     \/ /\ ~Accepts(l.act, l.id)
        /\ CatchWrite(t, RejectedMsg)
        /\ UNCHANGED lastTransaction
     \/ /\ \E m \in TransportMsgs : CatchWrite(t, m)
        /\ UNCHANGED lastTransaction
  /\ UNCHANGED <<store, appInfo, decoded, created, currentAccount, chainVars, hasOptedIn, isSigner, cacheVars>>

\* sendRawTransaction has answered: the node took the submission into its
\* pool, or refused it, or the request failed
sendDone(t) ==
  /\ pc[t] = "send"
  /\ \/ /\ Accepts(loc[t].act, loc[t].id)
        /\ pc' = [pc EXCEPT ![t] = "confirm"]
        /\ loc' = [loc EXCEPT ![t].rounds = confirmationRounds]
        /\ result' = None
        /\ UNCHANGED <<ops, isLoading, error>>
     \/ /\ ~Accepts(loc[t].act, loc[t].id)
        /\ CatchWrite(t, RejectedMsg)
     \/ \E m \in TransportMsgs : CatchWrite(t, m)
  /\ UNCHANGED <<store, appInfo, decoded, created, currentAccount, chainVars, lastTransaction, hasOptedIn, isSigner, cacheVars>>

\* waitForConfirmation(txId, rounds = 4): the rounds it waits for pass with
\* the transaction in no block
roundsElapse(t) ==
  /\ pc[t] = "confirm"
  /\ loc[t].rounds > 0
  /\ loc' = [loc EXCEPT ![t].rounds = 0]
  /\ result' = None
  /\ UNCHANGED <<store, appInfo, decoded, created, currentAccount, chainVars, flagVars, cacheVars, pc, ops>>

\* the timeout taken for an unconfirmed result and recorded
confirmTimeoutRecorded(t) ==
  LET txres == [txId |-> loc[t].op, confirmed |-> FALSE, appId |-> AppIdOf(store)] IN
  /\ pc[t] = "confirm"
  /\ loc[t].rounds = 0
  /\ lastTransaction' = Some(txres)
  /\ ReturnWrite(t, [loc[t] EXCEPT !.txres = Some(txres)])
  /\ UNCHANGED <<store, appInfo, decoded, created, currentAccount, chainVars, error, hasOptedIn, isSigner, cacheVars>>

\* the wait started over when its rounds have passed
confirmTimeoutRetries(t) ==
  /\ pc[t] = "confirm"
  /\ loc[t].rounds = 0
  /\ loc' = [loc EXCEPT ![t].rounds = confirmationRounds]
  /\ result' = None
  /\ UNCHANGED <<store, appInfo, decoded, created, currentAccount, chainVars, flagVars, cacheVars, pc, ops>>

\* waitForConfirmation rejects: the transaction was not confirmed after the
\* rounds it waits for
confirmTimeout(t) ==
  /\ pc[t] = "confirm"
  /\ loc[t].rounds = 0
  /\ CatchWrite(t, TimeoutMsg)
  /\ UNCHANGED <<store, appInfo, decoded, created, currentAccount, chainVars, lastTransaction, hasOptedIn, isSigner, cacheVars>>

\* waitForConfirmation rejects before that: a poll failed, or the pool
\* dropped the transaction
confirmFails(t) ==
  /\ pc[t] = "confirm"
  /\ loc[t].rounds > 0
  /\ \/ \E m \in TransportMsgs : CatchWrite(t, m)
     \/ /\ ~Accepts(loc[t].act, loc[t].id)
        /\ CatchWrite(t, RejectedMsg)
  /\ UNCHANGED <<store, appInfo, decoded, created, currentAccount, chainVars, lastTransaction, hasOptedIn, isSigner, cacheVars>>

\* waitForConfirmation returns: the transaction is in a block.  The
\* repository returns its TransactionResult, the store records it and
\* starts the dependent re-fetch, or returns when it has none
confirmed(t) ==
  LET l == loc[t]
      txres == [txId |-> l.op, confirmed |-> TRUE, appId |-> AppIdOf(store)]
      l2 == [l EXCEPT !.txres = Some(txres), !.nested = TRUE]
  IN
  /\ pc[t] = "confirm"
  /\ l.rounds > 0
  /\ Accepts(l.act, l.id)
  /\ fundApp' = (IF store = "fund" THEN FundApply(fundApp, l.act, l.id, l.amt, now)
                 ELSE fundApp)
  /\ daoApp' = (IF store = "dao" THEN DaoApply(daoApp, l.act, l.amt) ELSE daoApp)
  /\ ticketApp' = (IF store = "ticket" THEN TicketApply(ticketApp, l.act, l.id, l.amt)
                   ELSE ticketApp)
  /\ splitApp' = (IF store = "split" THEN SplitApply(splitApp, l.act, l.amt)
                  ELSE splitApp)
  /\ lastTransaction' = Some(txres)
  /\ hasOptedIn' = (IF l.act = "optIn" THEN TRUE ELSE hasOptedIn)
  /\ IF l.refetch = "none"
     THEN ReturnWrite(t, l2)
     ELSE /\ isLoading' = (IF SetsLoading(l.refetch) THEN TRUE ELSE isLoading)
          /\ Await(t, FirstLabel(l.refetch), l2)
  /\ UNCHANGED <<store, appInfo, decoded, created, currentAccount, walletRecord, now, acct, error, isSigner, cacheVars>>

(***************************************************************************)
(* optIn and checkOptInStatus, the same in the four contract stores        *)
(***************************************************************************)
ContractStores == {"fund", "dao", "ticket", "split"}

optIn(t) ==
  /\ store \in ContractStores
  /\ StartWrite(t, "optIn", 0, 0, FALSE, "Failed to opt-in", "none")

checkOptInStatus(t) ==
  /\ store \in ContractStores
  /\ StartRead(t, "checkOptInStatus", 0)

\* hasOptedIn(address) has answered; a failure is logged
checkOptInStatusDone(t) ==
  /\ pc[t] = "checkOptInStatus" /\ Answered(t)
  /\ hasOptedIn' = (IF loc[t].io = "ok" THEN loc[t].snap[1].optedIn ELSE hasOptedIn)
  /\ FinishFetch(t)
  /\ UNCHANGED <<store, appInfo, decoded, created, currentAccount, chainVars, error, lastTransaction, isSigner, cacheVars>>

(***************************************************************************)
(* Fundraising store                                                       *)
(***************************************************************************)
createCampaign(t, goal) ==
  /\ store = "fund"
  /\ StartWrite(t, "createCampaign", 0, goal, FALSE, "Failed to create campaign",
                "fetchActiveCampaigns")

donate(t, campaignId, amount, isAnonymous) ==
  /\ store = "fund"
  /\ StartWrite(t, "donate", campaignId, amount, isAnonymous, "Failed to donate",
                "fetchCampaign")

claimFunds(t, campaignId) ==
  /\ store = "fund"
  /\ StartWrite(t, "claimFunds", campaignId, 0, FALSE, "Failed to claim funds",
                "fetchCampaign")

requestRefund(t, campaignId) ==
  /\ store = "fund"
  /\ StartWrite(t, "requestRefund", campaignId, 0, FALSE, "Failed to request refund",
                "none")

cancelCampaign(t, campaignId) ==
  /\ store = "fund"
  /\ StartWrite(t, "cancelCampaign", campaignId, 0, FALSE, "Failed to cancel campaign",
                "fetchActiveCampaigns")

fetchCampaign(t, campaignId) ==
  /\ store = "fund"
  /\ StartRead(t, "fetchCampaign", campaignId)

fetchCampaignDone(t) ==
  LET campaign == getCampaign(loc[t], loc[t].id, now) IN
  /\ pc[t] = "fetchCampaign" /\ Answered(t)
  /\ campaigns' = (IF campaign # None THEN Upsert(campaigns, campaign[1])
                   ELSE campaigns)
  /\ activeCampaigns' = (IF campaign # None /\ campaign[1].status = ACTIVE
                         THEN Upsert(activeCampaigns, campaign[1])
                         ELSE activeCampaigns)
  /\ FinishFetch(t)
  /\ UNCHANGED <<store, appInfo, decoded, created, currentAccount, chainVars, error, lastTransaction, hasOptedIn, isSigner,
                 userDonations, stats, daoCache, ticketCache, splitCache, walletCache>>

fetchActiveCampaigns(t) ==
  /\ store = "fund"
  /\ StartRead(t, "fetchActiveCampaigns", 0)

\* FundraisingRepository.getActiveCampaigns: the first read gives the count;
\* caught failure or no campaign returns the empty list
getActiveCampaignsDone(t) ==
  LET l == loc[t]
      campaignCount == IF l.io = "fail" THEN 0 ELSE l.snap[1].count
  IN
  /\ pc[t] = "getActiveCampaigns" /\ Answered(t)
  /\ IF campaignCount = 0
     THEN /\ activeCampaigns' = <<>>
          /\ FinishFetch(t)
     ELSE /\ Await(t, "getActiveCampaignsLoop", [l EXCEPT !.i = 0, !.n = campaignCount,
                                                          !.acc = <<>>])
          /\ UNCHANGED <<activeCampaigns, isLoading>>
  /\ UNCHANGED <<store, appInfo, decoded, created, currentAccount, chainVars, error, lastTransaction, hasOptedIn, isSigner,
                 campaigns, userDonations, stats, daoCache, ticketCache, splitCache,
                 walletCache>>

\* one turn of the loop: getCampaign(i) has answered
getActiveCampaignsLoop(t) ==
  LET l == loc[t]
      campaign == getCampaign(l, l.i, now)
      acc2 == IF campaign # None /\ campaign[1].status = ACTIVE
              THEN Append(l.acc, campaign[1]) ELSE l.acc
  IN
  /\ pc[t] = "getActiveCampaignsLoop" /\ Answered(t)
  /\ IF l.i + 1 < l.n
     THEN /\ Await(t, "getActiveCampaignsLoop", [l EXCEPT !.i = @ + 1, !.acc = acc2])
          /\ UNCHANGED <<activeCampaigns, isLoading>>
     ELSE /\ activeCampaigns' = acc2
          /\ FinishFetch(t)
  /\ UNCHANGED <<store, appInfo, decoded, created, currentAccount, chainVars, error, lastTransaction, hasOptedIn, isSigner,
                 campaigns, userDonations, stats, daoCache, ticketCache, splitCache,
                 walletCache>>

fetchUserDonations(t) ==
  /\ store = "fund"
  /\ StartRead(t, "fetchUserDonations", 0)

fetchUserDonationsDone(t) ==
  /\ pc[t] = "fetchUserDonations" /\ Answered(t)
  /\ userDonations' = getUserDonations(loc[t])
  /\ FinishFetch(t)
  /\ UNCHANGED <<store, appInfo, decoded, created, currentAccount, chainVars, error, lastTransaction, hasOptedIn, isSigner,
                 campaigns, activeCampaigns, stats, daoCache, ticketCache, splitCache,
                 walletCache>>

fetchStats(t) ==
  /\ store = "fund"
  /\ StartRead(t, "fetchStats", 0)

fetchStatsDone(t) ==
  /\ pc[t] = "fetchStats" /\ Answered(t)
  /\ stats' = getContractStats(loc[t])
  /\ FinishFetch(t)
  /\ UNCHANGED <<store, appInfo, decoded, created, currentAccount, chainVars, error, lastTransaction, hasOptedIn, isSigner,
                 campaigns, activeCampaigns, userDonations, daoCache, ticketCache,
                 splitCache, walletCache>>

(***************************************************************************)
(* DAO treasury store                                                      *)
(***************************************************************************)
addSigner(t) ==
  /\ store = "dao"
  /\ StartWrite(t, "addSigner", 0, 0, FALSE, "Failed to add signer",
                "fetchTreasuryState")

createProposal(t, amount) ==
  /\ store = "dao"
  /\ StartWrite(t, "createProposal", 0, amount, FALSE, "Failed to create proposal",
                "fetchTreasuryState")

approveProposal(t, proposalId) ==
  /\ store = "dao"
  /\ StartWrite(t, "approveProposal", proposalId, 0, FALSE,
                "Failed to approve proposal", "fetchProposal")

executeProposal(t, proposalId) ==
  /\ store = "dao"
  /\ StartWrite(t, "executeProposal", proposalId, 0, FALSE,
                "Failed to execute proposal", "fetchTreasuryState")

deposit(t, amount) ==
  /\ store = "dao"
  /\ StartWrite(t, "deposit", 0, amount, FALSE, "Failed to deposit",
                "fetchTreasuryState")

checkSignerStatus(t) ==
  /\ store = "dao"
  /\ StartRead(t, "checkSignerStatus", 0)

checkSignerStatusDone(t) ==
  /\ pc[t] = "checkSignerStatus" /\ Answered(t)
  /\ isSigner' = isSignerOf(loc[t])
  /\ FinishFetch(t)
  /\ UNCHANGED <<store, appInfo, decoded, created, currentAccount, chainVars, error, lastTransaction, hasOptedIn, cacheVars>>

fetchTreasuryState(t) ==
  /\ store = "dao"
  /\ StartRead(t, "fetchTreasuryState", 0)

\* DAOTreasuryRepository.getTreasuryState: the global state has answered;
\* a caught failure returns null, else the balance of the application
\* address is read
getTreasuryStateDone(t) ==
  /\ pc[t] = "getTreasuryState" /\ Answered(t)
  /\ IF loc[t].io = "fail"
     THEN /\ treasuryState' = None
          /\ FinishFetch(t)
     ELSE /\ Await(t, "getTreasuryStateBalance", [loc[t] EXCEPT !.acc = loc[t].snap])
          /\ UNCHANGED <<treasuryState, isLoading>>
  /\ UNCHANGED <<store, appInfo, decoded, created, currentAccount, chainVars, error, lastTransaction, hasOptedIn, isSigner,
                 proposals, fundCache, ticketCache, splitCache, walletCache>>

\* the balance has answered: the entity is built, or null on a caught
\* failure, and the store sets treasuryState to what the repository returned
getTreasuryStateBalanceDone(t) ==
  LET l == loc[t]
      globalState == l.acc[1]
  IN
  /\ pc[t] = "getTreasuryStateBalance" /\ Answered(t)
  /\ treasuryState' =
       (IF l.io = "fail" THEN None
        ELSE Some([threshold |-> 2, signerCount |-> globalState.signerCount,
                   proposalCount |-> globalState.proposalCount,
                   balance |-> l.snap[1].balance]))
  /\ FinishFetch(t)
  /\ UNCHANGED <<store, appInfo, decoded, created, currentAccount, chainVars, error, lastTransaction, hasOptedIn, isSigner,
                 proposals, fundCache, ticketCache, splitCache, walletCache>>

fetchProposal(t, proposalId) ==
  /\ store = "dao"
  /\ StartRead(t, "fetchProposal", proposalId)

fetchProposalDone(t) ==
  LET proposal == getProposal(loc[t], loc[t].id) IN
  /\ pc[t] = "fetchProposal" /\ Answered(t)
  /\ proposals' = (IF proposal # None THEN Upsert(proposals, proposal[1])
                   ELSE proposals)
  /\ FinishValue(t, proposal)
  /\ UNCHANGED <<store, appInfo, decoded, created, currentAccount, chainVars, error, lastTransaction, hasOptedIn, isSigner,
                 treasuryState, fundCache, ticketCache, splitCache, walletCache>>

getTreasuryBalance(t) ==
  /\ store = "dao"
  /\ StartRead(t, "getTreasuryBalance", 0)

getTreasuryBalanceDone(t) ==
  /\ pc[t] = "getTreasuryBalance" /\ Answered(t)
  /\ FinishValue(t, IF loc[t].io = "fail" THEN Some(0) ELSE Some(loc[t].snap[1].balance))
  /\ UNCHANGED <<store, appInfo, decoded, created, currentAccount, chainVars, error, lastTransaction, hasOptedIn, isSigner,
                 cacheVars>>

(***************************************************************************)
(* Soulbound ticket store                                                  *)
(***************************************************************************)
createEvent(t, price) ==
  /\ store = "ticket"
  /\ StartWrite(t, "createEvent", 0, price, FALSE, "Failed to create event",
                "fetchContractState")

purchaseTicket(t, eventId) ==
  /\ store = "ticket"
  /\ StartWrite(t, "purchaseTicket", eventId, 0, FALSE, "Failed to purchase ticket",
                "fetchEvent")

checkIn(t, eventId) ==
  /\ store = "ticket"
  /\ StartWrite(t, "checkIn", eventId, 0, FALSE, "Failed to check-in", "none")

verifyTicketAction(t, eventId) ==
  /\ store = "ticket"
  /\ StartRead(t, "verifyTicket", eventId)

verifyTicketDone(t) ==
  /\ pc[t] = "verifyTicket" /\ Answered(t)
  /\ FinishValue(t, Some(verifyTicket(loc[t], loc[t].id)))
  /\ UNCHANGED <<store, appInfo, decoded, created, currentAccount, chainVars, error, lastTransaction, hasOptedIn, isSigner,
                 cacheVars>>

fetchEvent(t, eventId) ==
  /\ store = "ticket"
  /\ StartRead(t, "fetchEvent", eventId)

fetchEventDone(t) ==
  LET event == getEvent(loc[t], loc[t].id) IN
  /\ pc[t] = "fetchEvent" /\ Answered(t)
  /\ events' = (IF event # None THEN Upsert(events, event[1]) ELSE events)
  /\ FinishFetch(t)
  /\ UNCHANGED <<store, appInfo, decoded, created, currentAccount, chainVars, error, lastTransaction, hasOptedIn, isSigner,
                 userTickets, fundCache, daoCache, splitCache, walletCache>>

fetchUserTickets(t) ==
  /\ store = "ticket"
  /\ StartRead(t, "fetchUserTickets", 0)

fetchUserTicketsDone(t) ==
  /\ pc[t] = "fetchUserTickets" /\ Answered(t)
  /\ userTickets' = getUserTickets(loc[t])
  /\ FinishFetch(t)
  /\ UNCHANGED <<store, appInfo, decoded, created, currentAccount, chainVars, error, lastTransaction, hasOptedIn, isSigner,
                 events, fundCache, daoCache, splitCache, walletCache>>

fetchContractState(t) ==
  /\ store = "ticket"
  /\ StartRead(t, "fetchContractState", 0)

\* getContractState() has answered: null leaves the events alone, a count of
\* zero sets the empty list, else the events are read one by one
getContractStateDone(t) ==
  LET l == loc[t]
      state == getContractState(l)
  IN
  /\ pc[t] = "getContractState" /\ Answered(t)
  /\ IF state = None
     THEN /\ events' = events
          /\ FinishFetch(t)
     ELSE IF state[1].eventCount = 0
     THEN /\ events' = <<>>
          /\ FinishFetch(t)
     ELSE /\ Await(t, "fetchContractStateLoop",
                   [l EXCEPT !.i = 0, !.n = state[1].eventCount, !.acc = <<>>])
          /\ UNCHANGED <<events, isLoading>>
  /\ UNCHANGED <<store, appInfo, decoded, created, currentAccount, chainVars, error, lastTransaction, hasOptedIn, isSigner,
                 userTickets, fundCache, daoCache, splitCache, walletCache>>

\* one turn of the loop: getEvent(i) has answered
fetchContractStateLoop(t) ==
  LET l == loc[t]
      event == getEvent(l, l.i)
      acc2 == IF event # None THEN Append(l.acc, event[1]) ELSE l.acc
  IN
  /\ pc[t] = "fetchContractStateLoop" /\ Answered(t)
  /\ IF l.i + 1 < l.n
     THEN /\ Await(t, "fetchContractStateLoop", [l EXCEPT !.i = @ + 1, !.acc = acc2])
          /\ UNCHANGED <<events, isLoading>>
     ELSE /\ events' = acc2
          /\ FinishFetch(t)
  /\ UNCHANGED <<store, appInfo, decoded, created, currentAccount, chainVars, error, lastTransaction, hasOptedIn, isSigner,
                 userTickets, fundCache, daoCache, splitCache, walletCache>>

(***************************************************************************)
(* Expense splitter store                                                  *)
(***************************************************************************)
addExpense(t, amount) ==
  /\ store = "split"
  /\ StartWrite(t, "addExpense", 0, amount, FALSE, "Failed to add expense",
                "fetchSplitState")

markSettled(t) ==
  /\ store = "split"
  /\ StartWrite(t, "markSettled", 0, 0, FALSE, "Failed to mark settled",
                "fetchSplitState")

fetchSplitState(t) ==
  /\ store = "split"
  /\ StartRead(t, "fetchSplitState", 0)

fetchSplitStateDone(t) ==
  /\ pc[t] = "fetchSplitState" /\ Answered(t)
  /\ splitState' = getExpenseSplitState(loc[t])
  /\ FinishFetch(t)
  /\ UNCHANGED <<store, appInfo, decoded, created, currentAccount, chainVars, error, lastTransaction, hasOptedIn, isSigner,
                 memberState, fundCache, daoCache, ticketCache, walletCache>>

fetchMemberState(t) ==
  /\ store = "split"
  /\ StartRead(t, "fetchMemberState", 0)

fetchMemberStateDone(t) ==
  /\ pc[t] = "fetchMemberState" /\ Answered(t)
  /\ memberState' = Some(getMemberState(loc[t]))
  /\ FinishFetch(t)
  /\ UNCHANGED <<store, appInfo, decoded, created, currentAccount, chainVars, error, lastTransaction, hasOptedIn, isSigner,
                 splitState, fundCache, daoCache, ticketCache, walletCache>>

getAppBalance(t) ==
  /\ store = "split"
  /\ StartRead(t, "getAppBalance", 0)

getAppBalanceDone(t) ==
  /\ pc[t] = "getAppBalance" /\ Answered(t)
  /\ FinishValue(t, IF loc[t].io = "fail" THEN Some(0) ELSE Some(loc[t].snap[1].balance))
  /\ UNCHANGED <<store, appInfo, decoded, created, currentAccount, chainVars, error, lastTransaction, hasOptedIn, isSigner,
                 cacheVars>>

(***************************************************************************)
(* Wallet store                                                            *)
(***************************************************************************)
\* initialize: set({isLoading: true, error: null}), then loadWallet()
initialize(t) ==
  /\ store = "wallet"
  /\ FreeSlot(t)
  /\ writes <= MaxWrites
  /\ isLoading' = TRUE
  /\ error' = None
  /\ pc' = [pc EXCEPT ![t] = "initLoadWallet"]
  /\ loc' = [loc EXCEPT ![t] = [NoLoc EXCEPT !.act = "initialize", !.kind = "init",
                                  !.refetch = "refreshBalance", !.nested = TRUE,
                                  !.wallet = walletRecord, !.op = writes + 1]]
  /\ result' = None
  /\ writes' = writes + 1
  /\ UNCHANGED <<store, appInfo, decoded, created, currentAccount, chainVars, lastTransaction, hasOptedIn, isSigner, cacheVars, reads>>

\* loadWallet() has answered: with a wallet the address is set and the
\* balance refreshed, else the store is initialized as it is; a stored text
\* that JSON.parse rejects is caught
initLoadWalletDone(t) ==
  /\ pc[t] = "initLoadWallet"
  /\ IF loc[t].wallet = Some(Unparsable)
     THEN /\ error' = Some("JSON Parse error: Unexpected identifier")
          /\ isLoading' = FALSE
          /\ Retire(t, Resolved(loc[t].act, None))
          /\ UNCHANGED <<address, isInitialized>>
     ELSE IF loc[t].wallet # None
     THEN /\ address' = Some(loc[t].wallet[1].address)
          /\ Await(t, "refreshBalance", loc[t])
          /\ UNCHANGED <<isInitialized, isLoading, error>>
     ELSE /\ isInitialized' = TRUE
          /\ isLoading' = FALSE
          /\ Retire(t, Resolved(loc[t].act, None))
          /\ UNCHANGED <<address, error>>
  /\ currentAccount' = (IF loc[t].wallet = None \/ loc[t].wallet = Some(Unparsable)
                        THEN currentAccount ELSE loc[t].wallet)
  /\ UNCHANGED <<store, appInfo, decoded, created, chainVars, lastTransaction, hasOptedIn, isSigner,
                 balance, fundCache, daoCache, ticketCache, splitCache>>

\* createWallet: generateAccount() returns {address, mnemonic, secretKey},
\* so the `account` the store destructures is undefined and account.addr
\* throws before anything is awaited; catch, rethrow, finally
createWallet ==
  /\ store = "wallet"
  /\ writes <= MaxWrites
  /\ error' = Some("Cannot read property 'addr' of undefined")
  /\ isLoading' = FALSE
  /\ result' = Rejected("createWallet", "Cannot read property 'addr' of undefined")
  /\ writes' = writes + 1
  /\ UNCHANGED <<store, appInfo, decoded, created, currentAccount, chainVars, lastTransaction, hasOptedIn, isSigner,
                 cacheVars, pc, loc, reads>>

\* importWallet(mnemonic): recoverFromMnemonic throws on a mnemonic algosdk
\* rejects; else saveWallet(account.addr, mnemonic) is awaited, account.addr
\* being undefined
importWallet(t, valid) ==
  /\ store = "wallet"
  /\ FreeSlot(t)
  /\ writes <= MaxWrites
  /\ writes' = writes + 1
  /\ IF valid
     THEN /\ isLoading' = TRUE
          /\ error' = None
          /\ pc' = [pc EXCEPT ![t] = "saveWallet"]
          /\ loc' = [loc EXCEPT ![t] = [NoLoc EXCEPT !.act = "importWallet",
                                          !.kind = "wallet", !.op = writes + 1]]
          /\ result' = None
     ELSE /\ isLoading' = FALSE
          /\ error' = Some("failed to decode mnemonic")
          /\ result' = Rejected("importWallet", "failed to decode mnemonic")
          /\ UNCHANGED <<pc, loc>>
  /\ UNCHANGED <<store, appInfo, decoded, created, currentAccount, chainVars, lastTransaction, hasOptedIn, isSigner,
                 cacheVars, reads>>

\* saveWallet(undefined) has settled: AsyncStorage.setItem(key, undefined)
\* rejects where the platform refuses a value that is not a string, and
\* stores the text "undefined" where it does not; then set({address:
\* undefined}) and refreshBalance(), which returns at once
importSaveWalletDone(t) ==
  /\ pc[t] = "saveWallet"
  /\ \/ /\ error' = Some("Invalid Value")
        /\ Retire(t, Rejected(loc[t].act, "Invalid Value"))
        /\ UNCHANGED <<walletRecord, address>>
     \/ /\ walletRecord' = Some(Unparsable)
        /\ address' = None
        /\ Retire(t, Resolved(loc[t].act, None))
        /\ UNCHANGED error
  /\ isLoading' = FALSE
  /\ UNCHANGED <<store, appInfo, decoded, created, currentAccount, now, fundApp, daoApp, ticketApp, splitApp, acct,
                 lastTransaction, hasOptedIn, isSigner, balance, isInitialized,
                 fundCache, daoCache, ticketCache, splitCache>>

\* disconnect: walletService has no clearWallet, so the call throws inside
\* the try before anything is awaited; the catch sets error and the action
\* resolves
disconnect ==
  /\ store = "wallet"
  /\ writes <= MaxWrites
  /\ error' = Some("walletService.clearWallet is not a function")
  /\ isLoading' = FALSE
  /\ result' = Resolved("disconnect", None)
  /\ writes' = writes + 1
  /\ UNCHANGED <<store, appInfo, decoded, created, currentAccount, chainVars, lastTransaction, hasOptedIn, isSigner,
                 cacheVars, pc, loc, reads>>

\* refreshBalance with no address returns at once
refreshBalance(t) ==
  /\ store = "wallet"
  /\ IF address = None
     THEN /\ FreeSlot(t)
          /\ reads < MaxReads
          /\ reads' = reads + 1
          /\ result' = Resolved("refreshBalance", None)
          /\ UNCHANGED <<store, appInfo, decoded, created, currentAccount, chainVars, flagVars, cacheVars, pc, loc, writes>>
     ELSE StartRead(t, "refreshBalance", 0)

\* getBalance(address) has answered; a failure is logged
refreshBalanceDone(t) ==
  /\ pc[t] = "refreshBalance" /\ Answered(t)
  /\ balance' = (IF loc[t].io = "ok" THEN loc[t].snap[1].balance ELSE balance)
  /\ isInitialized' = (IF loc[t].kind = "init" THEN TRUE ELSE isInitialized)
  /\ FinishFetch(t)
  /\ UNCHANGED <<store, appInfo, decoded, created, currentAccount, chainVars, error, lastTransaction, hasOptedIn, isSigner,
                 address, fundCache, daoCache, ticketCache, splitCache>>

(***************************************************************************)
(* Specification                                                           *)
(***************************************************************************)
InitFundApp ==
  [count |-> 1,
   camp |-> [i \in Slots |-> IF i = 0
                           THEN [titled |-> TRUE, goal |-> MaxAmount, raised |-> 0,
                                 deadline |-> 1, cancelled |-> FALSE]
                           ELSE NoCampaign],
   totalRaised |-> 0, donations |-> <<>>, optedIn |-> FALSE]

InitDaoApp ==
  [signerCount |-> 1, proposalCount |-> 1, balance |-> 1, optedIn |-> FALSE,
   isSigner |-> TRUE]

InitTicketApp ==
  [count |-> 2,
   ev |-> [i \in Slots |-> IF i \in {0, 1} THEN [named |-> TRUE, price |-> 1, sold |-> 0]
                           ELSE NoEvent],
   tickets |-> {}, optedIn |-> FALSE]

InitSplitApp ==
  [memberCount |-> 1, expenseCount |-> 0, totalPool |-> 0, isSettled |-> FALSE,
   balance |-> 1, optedIn |-> FALSE, netBalance |-> 0, balanceSign |-> 0]

InitAcct == [balance |-> 1]

\* the stores as create(...) leaves them, no action in flight
InitClient ==
  /\ isLoading = FALSE /\ error = None /\ lastTransaction = None
  /\ hasOptedIn = FALSE /\ isSigner = FALSE
  /\ campaigns = <<>> /\ activeCampaigns = <<>> /\ userDonations = <<>>
  /\ stats = None
  /\ treasuryState = None /\ proposals = <<>>
  /\ events = <<>> /\ userTickets = <<>>
  /\ splitState = None /\ memberState = None
  /\ address = None /\ balance = 0 /\ isInitialized = FALSE
  /\ pc = [t \in Tasks |-> "idle"]
  /\ loc = [t \in Tasks |-> NoLoc]
  /\ result = None

Init ==
  /\ store \in Stores
  /\ walletRecord \in {None, Some(TheWallet)}
  /\ now = 1
  /\ fundApp = InitFundApp
  /\ daoApp = InitDaoApp
  /\ ticketApp = InitTicketApp
  /\ splitApp = InitSplitApp
  /\ acct = InitAcct
  /\ InitClient
  /\ writes = 0 /\ reads = 0
  /\ appInfo = None /\ decoded = None /\ created = {} /\ currentAccount = None

Next ==
  \/ \E t \in Tasks : optIn(t)
  \/ \E t \in Tasks, g \in Amounts : createCampaign(t, g)
  \/ \E t \in Tasks, c \in Ids, a \in Amounts, b \in BOOLEAN : donate(t, c, a, b)
  \/ \E t \in Tasks, c \in Ids : claimFunds(t, c)
  \/ \E t \in Tasks, c \in Ids : requestRefund(t, c)
  \/ \E t \in Tasks, c \in Ids : cancelCampaign(t, c)
  \/ \E t \in Tasks : checkOptInStatus(t)
  \/ \E t \in Tasks : checkOptInStatusDone(t)
  \/ \E t \in Tasks, c \in Ids : fetchCampaign(t, c)
  \/ \E t \in Tasks : fetchCampaignDone(t)
  \/ \E t \in Tasks : fetchActiveCampaigns(t)
  \/ \E t \in Tasks : getActiveCampaignsDone(t)
  \/ \E t \in Tasks : getActiveCampaignsLoop(t)
  \/ \E t \in Tasks : fetchUserDonations(t)
  \/ \E t \in Tasks : fetchUserDonationsDone(t)
  \/ \E t \in Tasks : fetchStats(t)
  \/ \E t \in Tasks : fetchStatsDone(t)
  \/ \E t \in Tasks : addSigner(t)
  \/ \E t \in Tasks, a \in Amounts : createProposal(t, a)
  \/ \E t \in Tasks, p \in Ids : approveProposal(t, p)
  \/ \E t \in Tasks, p \in Ids : executeProposal(t, p)
  \/ \E t \in Tasks, a \in Amounts : deposit(t, a)
  \/ \E t \in Tasks : checkSignerStatus(t)
  \/ \E t \in Tasks : checkSignerStatusDone(t)
  \/ \E t \in Tasks : fetchTreasuryState(t)
  \/ \E t \in Tasks : getTreasuryStateDone(t)
  \/ \E t \in Tasks : getTreasuryStateBalanceDone(t)
  \/ \E t \in Tasks, p \in Ids : fetchProposal(t, p)
  \/ \E t \in Tasks : fetchProposalDone(t)
  \/ \E t \in Tasks : getTreasuryBalance(t)
  \/ \E t \in Tasks : getTreasuryBalanceDone(t)
  \/ \E t \in Tasks, a \in Amounts : createEvent(t, a)
  \/ \E t \in Tasks, e \in Ids : purchaseTicket(t, e)
  \/ \E t \in Tasks, e \in Ids : checkIn(t, e)
  \/ \E t \in Tasks, e \in Ids : verifyTicketAction(t, e)
  \/ \E t \in Tasks : verifyTicketDone(t)
  \/ \E t \in Tasks, e \in Ids : fetchEvent(t, e)
  \/ \E t \in Tasks : fetchEventDone(t)
  \/ \E t \in Tasks : fetchUserTickets(t)
  \/ \E t \in Tasks : fetchUserTicketsDone(t)
  \/ \E t \in Tasks : fetchContractState(t)
  \/ \E t \in Tasks : getContractStateDone(t)
  \/ \E t \in Tasks : fetchContractStateLoop(t)
  \/ \E t \in Tasks, a \in Amounts : addExpense(t, a)
  \/ \E t \in Tasks : markSettled(t)
  \/ \E t \in Tasks : fetchSplitState(t)
  \/ \E t \in Tasks : fetchSplitStateDone(t)
  \/ \E t \in Tasks : fetchMemberState(t)
  \/ \E t \in Tasks : fetchMemberStateDone(t)
  \/ \E t \in Tasks : getAppBalance(t)
  \/ \E t \in Tasks : getAppBalanceDone(t)
  \/ \E t \in Tasks : initialize(t)
  \/ \E t \in Tasks : initLoadWalletDone(t)
  \/ \E t \in Tasks : refreshBalance(t)
  \/ \E t \in Tasks : refreshBalanceDone(t)
  \/ createWallet
  \/ \E t \in Tasks, valid \in BOOLEAN : importWallet(t, valid)
  \/ \E t \in Tasks : importSaveWalletDone(t)
  \/ disconnect
  \/ \E t \in Tasks : loadWalletDone(t)
  \/ \E t \in Tasks : purchaseGetEventDone(t)
  \/ \E t \in Tasks : getParamsDone(t)
  \/ \E t \in Tasks : sendDone(t)
  \/ \E t \in Tasks : roundsElapse(t)
  \/ \E t \in Tasks : confirmTimeout(t)
  \/ \E t \in Tasks : confirmFails(t)
  \/ \E t \in Tasks : confirmed(t)
  \/ \E t \in Tasks : LedgerServe(t)

Spec == Init /\ [][Next]_vars

\* a step of the store action in slot t: a continuation of it runs, or one
\* of its ledger calls returns or fails
Step(t) ==
  \/ LedgerServe(t)
  \/ loadWalletDone(t) \/ getParamsDone(t) \/ sendDone(t)
  \/ roundsElapse(t) \/ confirmTimeout(t) \/ confirmFails(t) \/ confirmed(t)
  \/ checkOptInStatusDone(t) \/ fetchCampaignDone(t)
  \/ getActiveCampaignsDone(t) \/ getActiveCampaignsLoop(t)
  \/ fetchUserDonationsDone(t) \/ fetchStatsDone(t)
  \/ checkSignerStatusDone(t) \/ getTreasuryStateDone(t)
  \/ getTreasuryStateBalanceDone(t) \/ fetchProposalDone(t)
  \/ getTreasuryBalanceDone(t)
  \/ purchaseGetEventDone(t) \/ verifyTicketDone(t) \/ fetchEventDone(t)
  \/ fetchUserTicketsDone(t)
  \/ getContractStateDone(t) \/ fetchContractStateLoop(t)
  \/ fetchSplitStateDone(t) \/ fetchMemberStateDone(t) \/ getAppBalanceDone(t)
  \/ initLoadWalletDone(t) \/ refreshBalanceDone(t) \/ importSaveWalletDone(t)

\* every ledger call eventually returns or fails, and the event loop runs
\* every continuation that is ready
LiveSpec == Spec /\ \A t \in Tasks : WF_vars(Step(t))

(***************************************************************************)
(* Reads of a ledger that no one writes to, under an advancing clock: the  *)
(* ledger holds any one campaign or event, the callers fetch it            *)
(* repeatedly                                                              *)
(***************************************************************************)
\* Date.now() moves on
Tick ==
  /\ now < MaxClock
  /\ now' = now + 1
  /\ result' = None
  /\ UNCHANGED <<store, appInfo, decoded, created, currentAccount, walletRecord, fundApp, daoApp, ticketApp, splitApp, acct,
                 flagVars, cacheVars, pc, loc, ops>>

StatusInit ==
  /\ store \in {"fund", "ticket"}
  /\ walletRecord = None
  /\ now \in 0..MaxClock
  /\ fundApp \in
       IF store # "fund" THEN {InitFundApp}
       ELSE {[InitFundApp EXCEPT !.camp[0] = c] :
               c \in [titled : BOOLEAN, goal : 0..MaxAmount, raised : 0..MaxAmount,
                      deadline : 0..MaxClock, cancelled : BOOLEAN]}
  /\ ticketApp \in
       IF store # "ticket" THEN {InitTicketApp}
       ELSE {[InitTicketApp EXCEPT !.ev[0] = e] :
               e \in [named : BOOLEAN, price : 0..MaxAmount, sold : 0..MaxAmount]}
  /\ daoApp = InitDaoApp
  /\ splitApp = InitSplitApp
  /\ acct = InitAcct
  /\ InitClient
  /\ writes = 0 /\ reads = MaxReads - MaxRepeat
  /\ appInfo = None /\ decoded = None /\ created = {} /\ currentAccount = None

StatusNext ==
  \/ Tick
  \/ \E t \in Tasks, c \in Ids : fetchCampaign(t, c)
  \/ \E t \in Tasks : fetchCampaignDone(t)
  \/ \E t \in Tasks, e \in Ids : fetchEvent(t, e)
  \/ \E t \in Tasks : fetchEventDone(t)
  \/ \E t \in Tasks : LedgerServe(t)

StatusSpec == StatusInit /\ [][StatusNext]_vars

(***************************************************************************)
(* The state decoder and the entity readers over every node response of    *)
(* at most MaxItems entries                                                *)
(***************************************************************************)
\* the responses a node can give for an application (its global state) and
\* for an account (its local state in one application): the keys the
\* contracts keep as byte strings and as uints, and entries that cannot be
\* decoded
Responses ==
  LET BytesKeys == {<<"campaign_0_title">>, <<"event_0_name">>}
      UintKeys == {<<"campaign_0_goal">>, <<"campaign_0_raised">>,
                   <<"event_0_price">>, <<"threshold">>, <<"signer_count">>,
                   <<"k", HighByte>>}
      Scalars(bytes) == {Raw(bytes), B64(bytes)}
      UintEntry(n) == Some([type |-> 2, bytes |-> Raw(<<>>), uint |-> n])
      BytesEntry(scalar) == Some([type |-> 1, bytes |-> scalar, uint |-> 0])
      WellFormedItems ==
        UNION { { [key |-> k, value |-> BytesEntry(v)] :
                    k \in Scalars(b),
                    v \in UNION {Scalars(w) :
                                   w \in {<<>>, <<"A">>, <<HighByte>>}} } :
                b \in BytesKeys }
        \cup
        UNION { { [key |-> k, value |-> UintEntry(n)] :
                    k \in Scalars(b), n \in 0..MaxAmount } : b \in UintKeys }
      MalformedItems ==
        { [key |-> BadB64, value |-> UintEntry(1)],
          [key |-> Raw(<<"threshold">>), value |-> None],
          [key |-> Raw(<<"campaign_0_title">>), value |-> BytesEntry(BadB64)] }
      ItemLists ==
        UNION { [1..n -> WellFormedItems \cup MalformedItems] :
                  n \in 0..MaxItems }
  IN { [kind |-> "app", fields |-> (f :> items)] :
         f \in {"globalState", "global-state"}, items \in ItemLists }
     \cup
     { [kind |-> "account",
        fields |-> (f :> << [id |-> i, fields |-> (g :> items)] >>)] :
         f \in {"appsLocalState", "apps-local-state"},
         g \in {"keyValue", "key-value"},
         i \in {soulboundTicketAppId, fundraisingAppId},
         items \in ItemLists }

DecodeInit ==
  /\ store = "ticket"
  /\ walletRecord = None
  /\ now = 1
  /\ fundApp = InitFundApp
  /\ daoApp = InitDaoApp
  /\ ticketApp = InitTicketApp
  /\ splitApp = InitSplitApp
  /\ acct = InitAcct
  /\ InitClient
  /\ writes = 0 /\ reads = 0
  /\ appInfo \in Responses
  /\ decoded = None /\ created = {} /\ currentAccount = None

Returns(op, id, out) ==
  /\ decoded' = [op |-> op, id |-> id, out |-> out]
  /\ UNCHANGED <<store, appInfo, created, currentAccount, chainVars, flagVars, cacheVars,
                 taskVars>>

\* AlgorandClientService.getAppGlobalState settles
getAppGlobalStateReturns ==
  /\ appInfo.kind = "app"
  /\ Returns("getAppGlobalState", 0, getAppGlobalState(appInfo))

\* AlgorandClientService.getAppLocalState settles
getAppLocalStateReturns ==
  /\ appInfo.kind = "account"
  /\ Returns("getAppLocalState", 0,
             getAppLocalState(appInfo, soulboundTicketAppId))

\* FundraisingRepository.getCampaign settles: a decoder that threw is caught
getCampaignReturns(campaignId) ==
  /\ appInfo.kind = "app"
  /\ LET globalState == getAppGlobalState(appInfo) IN
     Returns("getCampaign", campaignId,
             IF globalState.threw THEN None
             ELSE parseCampaign(globalState.state, campaignId, now))

\* SoulboundTicketRepository.getEvent settles
getEventReturns(eventId) ==
  /\ appInfo.kind = "app"
  /\ LET globalState == getAppGlobalState(appInfo) IN
     Returns("getEvent", eventId,
             IF globalState.threw THEN None
             ELSE parseEvent(globalState.state, eventId))

\* DAOTreasuryRepository.getTreasuryState settles, the balance read answered
getTreasuryStateReturns ==
  /\ appInfo.kind = "app"
  /\ LET globalState == getAppGlobalState(appInfo) IN
     Returns("getTreasuryState", 0,
             IF globalState.threw THEN None
             ELSE Some(parseTreasuryState(globalState.state, 0)))

DecodeNext ==
  \/ getAppGlobalStateReturns
  \/ getAppLocalStateReturns
  \/ \E id \in Ids : getCampaignReturns(id)
  \/ \E id \in Ids : getEventReturns(id)
  \/ getTreasuryStateReturns

DecodeSpec == DecodeInit /\ [][DecodeNext]_vars

(***************************************************************************)
(* A created campaign read back: the arguments createCampaign encodes,     *)
(* the application storing them verbatim, and getCampaign decoding them    *)
(***************************************************************************)
\* the strings given as title: a run of one code unit around the length
\* limit, followed by nothing or by a surrogate pair
Texts(limit) ==
  { [i \in 1..n |-> u] \o t :
      u \in {"A", "<E9>", "<20AC>"},
      n \in {0, 1, limit - 1, limit + 1},
      t \in {<<>>, <<"<D83D>", "<DE00>">>} }

\* Btoi of the application: the big-endian value of an eight-byte argument
RECURSIVE Btoi(_)
Btoi(bytes) ==
  IF bytes = <<>> THEN 0
  ELSE 256 * Btoi(SubSeq(bytes, 1, Len(bytes) - 1)) + bytes[Len(bytes)]

EncodeInit ==
  /\ store = "fund"
  /\ walletRecord = None
  /\ now = 1
  /\ fundApp = InitFundApp
  /\ daoApp = InitDaoApp
  /\ ticketApp = InitTicketApp
  /\ splitApp = InitSplitApp
  /\ acct = InitAcct
  /\ InitClient
  /\ writes = 0 /\ reads = 0
  /\ appInfo = [kind |-> "app", fields |-> ("globalState" :> <<>>)]
  /\ decoded = None /\ created = {} /\ currentAccount = None

\* FundraisingRepository.createCampaign builds its application arguments
\* and the application keeps them under the keys of campaign 0; the node
\* then serves that state in either byte representation
createCampaignStored(title, description, goal, enc) ==
  LET appArgs == << TextEncoderEncode(slice(title, 32)),
                    TextEncoderEncode(slice(description, 64)),
                    encodeUint64(goal) >>
      Scalar(bytes) == IF enc = "raw" THEN Raw(bytes) ELSE B64(bytes)
      BytesEntry(bytes) ==
        Some([type |-> 1, bytes |-> Scalar(bytes), uint |-> 0])
      UintEntry(n) == Some([type |-> 2, bytes |-> Raw(<<>>), uint |-> n])
  IN /\ decoded' = [op |-> "createCampaign", id |-> 0,
                    out |-> [title |-> title, description |-> description,
                             goal |-> goal, appArgs |-> appArgs]]
     /\ appInfo' =
          [kind |-> "app",
           fields |-> ("globalState" :>
             << [key |-> Scalar(<<"campaign_0_title">>),
                 value |-> BytesEntry(appArgs[1])],
                [key |-> Scalar(<<"campaign_0_description">>),
                 value |-> BytesEntry(appArgs[2])],
                [key |-> Scalar(<<"campaign_0_goal">>),
                 value |-> UintEntry(Btoi(appArgs[3]))] >>)]
     /\ UNCHANGED <<store, created, currentAccount, chainVars, flagVars, cacheVars,
                    taskVars>>

EncodeNext ==
  \/ \E title \in Texts(32), goal \in {0, MaxAmount},
        description \in {<<>>, [i \in 1..33 |-> "<E9>"], [i \in 1..65 |-> "A"]},
        enc \in {"raw", "b64"} :
       createCampaignStored(title, description, goal, enc)
  \/ \E id \in Ids : getCampaignReturns(id)

EncodeSpec == EncodeInit /\ [][EncodeNext]_vars

(***************************************************************************)
(* The readers of an account's local state.  The decoded Map is the        *)
(* sequence of its entries in insertion order; a key is the sequence of    *)
(* the segments its text has between underscores.                          *)
(***************************************************************************)
\* Map.prototype.get: the value of the entry with that key, or undefined
MapGet(localState, key) ==
  LET hits == {i \in 1..Len(localState) : localState[i].key = key} IN
  IF hits = {} THEN None ELSE Some(localState[CHOOSE i \in hits : TRUE].value)

\* parseInt of a segment: NaN (-1) unless it is a numeral
parseInt(segment) ==
  CASE segment = "0" -> 0 [] segment = "1" -> 1 [] OTHER -> -1

\* SoulboundTicketRepository.getUserTickets: the loop over the entries
RECURSIVE parseUserTickets(_, _, _)
parseUserTickets(localState, i, nowv) ==
  IF i > Len(localState) THEN <<>>
  ELSE LET key == localState[i].key
           date == MapGet(localState, key \o <<"date">>)
           checked == MapGet(localState, key \o <<"checked", "in">>)
       IN (IF Len(key) >= 2 /\ key[1] = "ticket"
           THEN << [eventId |-> parseInt(key[2]),
                    purchaseDate |-> IF date = None \/ date[1] = 0 THEN nowv
                                     ELSE date[1],
                    checkedIn |-> checked # None /\ checked[1] # 0] >>
           ELSE <<>>)
          \o parseUserTickets(localState, i + 1, nowv)

\* FundraisingRepository.getUserDonations: the loop over the entries
RECURSIVE parseUserDonations(_, _)
parseUserDonations(localState, i) ==
  IF i > Len(localState) THEN <<>>
  ELSE LET key == localState[i].key
           time == MapGet(localState, key \o <<"time">>)
           anon == MapGet(localState, key \o <<"anon">>)
       IN (IF Len(key) >= 2 /\ key[1] = "donation"
           THEN << [id |-> IF Len(key) >= 3 THEN parseInt(key[3]) ELSE -1,
                    campaignId |-> parseInt(key[2]),
                    amount |-> localState[i].value,
                    timestamp |-> IF time = None THEN 0 ELSE time[1],
                    isAnonymous |-> anon # None /\ anon[1] # 0] >>
           ELSE <<>>)
          \o parseUserDonations(localState, i + 1)

\* the local states an account can have in the two applications: the key
\* of a ticket or donation, alone or followed by the keys that go with it,
\* for up to two records
LocalStates ==
  LET Entry(key, v) == [key |-> key, value |-> v]
      TicketRecord(e) ==
        { <<Entry(<<"ticket", e>>, 1)>> \o aux :
            aux \in UNION { { <<>>,
                              <<Entry(<<"ticket", e, "date">>, d)>>,
                              <<Entry(<<"ticket", e, "date">>, d),
                                Entry(<<"ticket", e, "checked", "in">>, 1),
                                Entry(<<"ticket", e, "checkin", "time">>, d)>> } :
                            d \in 1..MaxClock } }
      DonationRecord(c, n) ==
        { <<Entry(<<"donation", c, n>>, a)>> \o aux :
            a \in 1..MaxAmount,
            aux \in { <<>>,
                      <<Entry(<<"donation", c, n, "time">>, 1)>>,
                      <<Entry(<<"donation", c, n, "time">>, 1),
                        Entry(<<"donation", c, n, "anon">>, 1)>> } }
      Tickets0 == TicketRecord("0")
      Tickets1 == TicketRecord("1")
      Donations0 == DonationRecord("0", "0")
      Donations1 == DonationRecord("0", "1")
  IN {<<>>} \cup Tickets0 \cup Donations0
     \cup {a \o b : a \in Tickets0, b \in Tickets1}
     \cup {a \o b : a \in Donations0, b \in Donations1}

LocalStateInit ==
  /\ store \in {"ticket", "fund"}
  /\ walletRecord = None
  /\ now = MaxClock
  /\ fundApp = InitFundApp
  /\ daoApp = InitDaoApp
  /\ ticketApp = InitTicketApp
  /\ splitApp = InitSplitApp
  /\ acct = InitAcct
  /\ InitClient
  /\ writes = 0 /\ reads = 0
  /\ appInfo \in LocalStates
  /\ decoded = None /\ created = {} /\ currentAccount = None

\* SoulboundTicketRepository.getUserTickets settles
getUserTicketsReturns ==
  /\ store = "ticket"
  /\ Returns("getUserTickets", 0, parseUserTickets(appInfo, 1, now))

\* FundraisingRepository.getUserDonations settles
getUserDonationsReturns ==
  /\ store = "fund"
  /\ Returns("getUserDonations", 0, parseUserDonations(appInfo, 1))

LocalStateNext == getUserTicketsReturns \/ getUserDonationsReturns

LocalStateSpec == LocalStateInit /\ [][LocalStateNext]_vars

(***************************************************************************)
(* WalletService: accounts, mnemonics and the persisted record.  A secret  *)
(* key is a number below MaxKeys; its mnemonic is the key's two digits,    *)
(* low digit first, followed by a checksum word.                           *)
(***************************************************************************)
Checksum(w1, w2) == (w1 + w2 + 1) % 3

\* algosdk.secretKeyToMnemonic
secretKeyToMnemonic(sk) == <<sk % 2, sk \div 2, Checksum(sk % 2, sk \div 2)>>

\* the words read high digit first
mnemonicToSecretKeySwapped(mnemonic) ==
  IF mnemonic[1] \in 0..1 /\ mnemonic[3] = Checksum(mnemonic[1], mnemonic[2])
  THEN Some(mnemonic[2] + 2 * mnemonic[1])
  ELSE None

\* algosdk.mnemonicToSecretKey: throws (None) on a word that is not in the
\* list or a checksum that does not match
mnemonicToSecretKey(mnemonic) ==
  IF mnemonic[1] \in 0..1 /\ mnemonic[3] = Checksum(mnemonic[1], mnemonic[2])
  THEN Some(mnemonic[1] + 2 * mnemonic[2])
  ELSE None

\* the address algosdk derives from the key pair of a secret key
AddressOfKey(sk) == "ADDR" \o ToString(sk)

\* WalletService.generateAccount, the key algosdk.generateAccount drew
generateAccount(sk) ==
  [address |-> AddressOfKey(sk), mnemonic |-> secretKeyToMnemonic(sk),
   secretKey |-> sk]

\* WalletService.recoverFromMnemonic
recoverFromMnemonic(mnemonic) ==
  LET secretKey == mnemonicToSecretKey(mnemonic) IN
  IF secretKey = None THEN None
  ELSE Some([address |-> AddressOfKey(secretKey[1]), secretKey |-> secretKey[1]])

\* a service call settles with r; saveWallet has written record, if any,
\* and the call leaves current as the account in memory
ServiceCall(r, record, current) ==
  /\ store = "wallet"
  /\ result' = r
  /\ walletRecord' = record
  /\ currentAccount' = current
  /\ UNCHANGED <<store, appInfo, decoded, now, fundApp, daoApp, ticketApp, splitApp,
                 acct, flagVars, cacheVars, pc, loc, ops>>

\* WalletService.createAndSaveWallet: the account is built, saved under
\* the storage key and returned
createAndSaveWallet(sk) ==
  LET g == generateAccount(sk)
      account == [address |-> g.address, mnemonic |-> g.mnemonic,
                  createdAt |-> now]
  IN /\ ServiceCall(Resolved("createAndSaveWallet", Some(account)), Some(account),
                    Some(account))
     /\ created' = created \cup {account}

\* WalletService.importWallet: a mnemonic that does not recover rejects
\* before anything is saved
WalletService_importWallet(mnemonic) ==
  LET r == recoverFromMnemonic(mnemonic)
      account == [address |-> r[1].address, mnemonic |-> mnemonic,
                  createdAt |-> now]
  IN /\ IF r = None
        THEN ServiceCall(Rejected("importWallet", "failed to decode mnemonic"), walletRecord,
                         currentAccount)
        ELSE ServiceCall(Resolved("importWallet", Some(account)), Some(account),
                         Some(account))
     /\ UNCHANGED created

\* WalletService.deleteWallet
deleteWallet ==
  /\ ServiceCall(Resolved("deleteWallet", None), None, None)
  /\ UNCHANGED created

\* WalletService.loadWallet
loadWallet ==
  /\ ServiceCall(Resolved("loadWallet", walletRecord), walletRecord,
                 IF walletRecord = None THEN currentAccount ELSE walletRecord)
  /\ UNCHANGED created

WalletInit ==
  /\ store = "wallet"
  /\ walletRecord = None
  /\ now = 1
  /\ fundApp = InitFundApp
  /\ daoApp = InitDaoApp
  /\ ticketApp = InitTicketApp
  /\ splitApp = InitSplitApp
  /\ acct = InitAcct
  /\ InitClient
  /\ writes = 0 /\ reads = 0
  /\ appInfo = None /\ decoded = None /\ created = {} /\ currentAccount = None

WalletNext ==
  \/ \E sk \in 0..(MaxKeys - 1) : createAndSaveWallet(sk)
  \/ \E mnemonic \in [1..3 -> 0..2] : WalletService_importWallet(mnemonic)
  \/ deleteWallet
  \/ loadWallet
  \/ Tick

WalletSpec == WalletInit /\ [][WalletNext]_vars

(***************************************************************************)
(* WalletService, await by await: a call issues its AsyncStorage request,  *)
(* the storage carries it out, and the continuation after the await runs.  *)
(* Up to MaxCalls calls are made, any of them while another is suspended.  *)
(***************************************************************************)
\* a method of the service is called: its code up to the await
ServiceStart(t, act, label, account) ==
  /\ store = "wallet"
  /\ FreeSlot(t)
  /\ writes < MaxCalls
  /\ writes' = writes + 1
  /\ pc' = [pc EXCEPT ![t] = label]
  /\ loc' = [loc EXCEPT ![t] = [NoLoc EXCEPT !.act = act, !.kind = "service",
                                  !.wallet = account, !.io = "pending"]]
  /\ result' = None
  /\ UNCHANGED <<store, appInfo, decoded, created, currentAccount, chainVars, flagVars, cacheVars, reads>>

\* createAndSaveWallet() up to the await in saveWallet
createAndSaveWalletCall(t, sk) ==
  LET g == generateAccount(sk) IN
  ServiceStart(t, "createAndSaveWallet", "setItem",
               Some([address |-> g.address, mnemonic |-> g.mnemonic,
                     createdAt |-> now]))

\* importWallet(mnemonic) up to the await in saveWallet, for a mnemonic
\* that recovers
importWalletCall(t, sk) ==
  LET mnemonic == secretKeyToMnemonic(sk)
      r == recoverFromMnemonic(mnemonic)
  IN /\ r # None
     /\ ServiceStart(t, "importWallet", "setItem",
                     Some([address |-> r[1].address, mnemonic |-> mnemonic,
                           createdAt |-> now]))

\* loadWallet() up to its await
loadWalletCall(t) == ServiceStart(t, "loadWallet", "getItem", None)

\* deleteWallet() up to its await
deleteWalletCall(t) == ServiceStart(t, "deleteWallet", "removeItem", None)

\* AsyncStorage carries out the request of a suspended call: setItem
\* replaces the item, getItem reads it, removeItem removes it
AsyncStorageServe(t) ==
  /\ pc[t] \in {"setItem", "getItem", "removeItem"}
  /\ loc[t].io = "pending"
  /\ walletRecord' = (CASE pc[t] = "setItem" -> loc[t].wallet
                        [] pc[t] = "removeItem" -> None
                        [] OTHER -> walletRecord)
  /\ loc' = [loc EXCEPT ![t].io = "ok",
                        ![t].wallet = IF pc[t] = "getItem" THEN walletRecord ELSE @]
  /\ result' = None
  /\ UNCHANGED <<store, appInfo, decoded, created, currentAccount, now, fundApp, daoApp, ticketApp, splitApp, acct,
                 flagVars, cacheVars, pc, ops>>

\* saveWallet after its await: this.currentAccount = account, and the
\* caller returns the account
saveWalletReturns(t) ==
  /\ pc[t] = "setItem" /\ loc[t].io = "ok"
  /\ currentAccount' = loc[t].wallet
  /\ Retire(t, Resolved(loc[t].act, loc[t].wallet))
  /\ UNCHANGED <<store, appInfo, decoded, created, chainVars, flagVars, cacheVars>>

\* loadWallet after its await: a stored record becomes the current account
loadWalletReturns(t) ==
  /\ pc[t] = "getItem" /\ loc[t].io = "ok"
  /\ currentAccount' = (IF loc[t].wallet # None THEN loc[t].wallet ELSE currentAccount)
  /\ Retire(t, Resolved("loadWallet", loc[t].wallet))
  /\ UNCHANGED <<store, appInfo, decoded, created, chainVars, flagVars, cacheVars>>

\* deleteWallet after its await: this.currentAccount = null
deleteWalletReturns(t) ==
  /\ pc[t] = "removeItem" /\ loc[t].io = "ok"
  /\ currentAccount' = None
  /\ Retire(t, Resolved("deleteWallet", None))
  /\ UNCHANGED <<store, appInfo, decoded, created, chainVars, flagVars, cacheVars>>

ServiceNext ==
  \/ \E t \in Tasks, sk \in 0..(MaxKeys - 1) : createAndSaveWalletCall(t, sk)
  \/ \E t \in Tasks, sk \in 0..(MaxKeys - 1) : importWalletCall(t, sk)
  \/ \E t \in Tasks : loadWalletCall(t)
  \/ \E t \in Tasks : deleteWalletCall(t)
  \/ \E t \in Tasks : AsyncStorageServe(t)
  \/ \E t \in Tasks : saveWalletReturns(t)
  \/ \E t \in Tasks : loadWalletReturns(t)
  \/ \E t \in Tasks : deleteWalletReturns(t)

ServiceSpec == WalletInit /\ [][ServiceNext]_vars

(***************************************************************************)
(* Properties                                                              *)
(***************************************************************************)
\* task t or the node answering it takes this step
Moves(t) == pc'[t] # pc[t] \/ loc'[t] # loc[t]

\* the store action in slot t settles in this step
Finishes(t) == pc[t] # "idle" /\ pc'[t] = "idle"

AllIdle == \A t \in Tasks : pc[t] = "idle"

WriteActs ==
  {"optIn", "addExpense", "markSettled", "addSigner", "createProposal",
   "approveProposal", "executeProposal", "deposit", "createEvent", "purchaseTicket",
   "checkIn", "createCampaign", "donate", "claimFunds", "requestRefund",
   "cancelCampaign"}

FailureMsgs == {NoWalletMsg, EventNotFoundMsg, TimeoutMsg, NetworkMsg, RejectedMsg}

RECURSIVE Concat(_)
Concat(seqs) == IF seqs = <<>> THEN <<>> ELSE Head(seqs) \o Concat(Tail(seqs))

NoDup(list) ==
  \A j, k \in 1..Len(list) : list[j].id = list[k].id => j = k

\* new is old with the entry of id replaced where it was, or appended
IsUpsertOf(old, new, id) ==
  /\ NoDup(old) => NoDup(new)
  /\ Len(new) >= Len(old)
  /\ Len(new) <= Len(old) + 1
  /\ \A k \in 1..Len(old) :
       /\ new[k].id = old[k].id
       /\ old[k].id # id => new[k] = old[k]
  /\ Len(new) = Len(old) + 1 =>
       /\ new[Len(new)].id = id
       /\ \A k \in 1..Len(old) : old[k].id # id

\* C1: when a store write action finishes, resolved or rejected, and no other
\* action of the store is still running, isLoading is false; and isLoading
\* is false whenever no action is running at all.
C1_LoadingReset ==
  [][ /\ \A t \in Tasks :
           ( /\ loc[t].kind = "write"
             /\ Finishes(t)
             /\ \A u \in Tasks : pc'[u] = "idle" )
           => isLoading' = FALSE
      /\ (\A u \in Tasks : pc'[u] = "idle") => isLoading' = FALSE ]_vars

C1_Witness ==
  /\ AllIdle
  /\ reads = 0 /\ writes = 1
  /\ result # None /\ result[1].ok /\ result[1].act \in WriteActs
  /\ lastTransaction # None
  /\ ~isLoading

\* C2: a write action invoked with no wallet record persisted rejects with
\* the no-wallet error at the repository's wallet check, having handed
\* nothing to the node; isLoading ends false, and the cached entities,
\* lastTransaction and the ledger are as they were.
C2_NoWallet ==
  [][ \A t \in Tasks :
        ( /\ loc[t].kind = "write"
          /\ loc[t].wallet = None
          /\ Moves(t) )
        => /\ pc[t] = "loadWallet"
           /\ loc[t].blob = <<>> /\ loc[t].sent = <<>>
           /\ result' = Rejected(loc[t].act, NoWalletMsg)
           /\ error' = Some(NoWalletMsg)
           /\ isLoading' = FALSE
           /\ pc'[t] = "idle"
           /\ UNCHANGED <<cacheVars, lastTransaction, chainVars>> ]_vars

C2_Witness ==
  /\ walletRecord = None
  /\ writes = 1 /\ reads = 0
  /\ AllIdle
  /\ result # None /\ ~result[1].ok /\ result[1].msg = NoWalletMsg
  /\ result[1].act \in WriteActs
  /\ error = Some(NoWalletMsg)
  /\ ~isLoading /\ lastTransaction = None

\* C3: a store write action that does not end with a confirmed transaction
\* rejects; on rejecting, the store's error is the message it rejects with,
\* that message is the failure's or, when the failure has none, the action's
\* fallback, never empty, and isLoading is already false.
C3_WriteFailureSurfaced ==
  [][ \A t \in Tasks :
        ( loc[t].kind = "write" /\ Finishes(t) )
        => /\ result' # None
           /\ result'[1].act = loc[t].act
           /\ IF result'[1].ok
              THEN /\ result'[1].value # None
                   /\ result'[1].value[1].confirmed
                   /\ loc[t].nested \/ pc[t] = "confirm"
              ELSE /\ error' = Some(result'[1].msg)
                   /\ result'[1].msg # EmptyMsg
                   /\ result'[1].msg \in FailureMsgs \cup {loc[t].fallback}
                   /\ isLoading' = FALSE ]_vars

C3_Witness ==
  /\ store = "split"
  /\ AllIdle
  /\ result # None /\ ~result[1].ok
  /\ result[1].act = "addExpense" /\ result[1].msg = "Failed to add expense"
  /\ error = Some("Failed to add expense")
  /\ ~isLoading

\* C4: when the rounds waitForConfirmation waits for have passed with the
\* transaction unconfirmed, the write action rejects with the timeout
\* message and the store's error is that message; and no step of a write
\* action before its confirmation changes the cached entities or
\* lastTransaction.
C4_ConfirmationTimeout ==
  [][ \A t \in Tasks :
        /\ ( /\ pc[t] = "confirm" /\ loc[t].rounds = 0 /\ Moves(t) )
           => /\ result' = Rejected(loc[t].act, TimeoutMsg)
              /\ error' = Some(TimeoutMsg)
              /\ pc'[t] = "idle"
              /\ UNCHANGED <<cacheVars, lastTransaction>>
        /\ ( /\ Moves(t)
             /\ \/ pc[t] = "idle" /\ loc'[t].kind = "write"
                \/ pc[t] \in {"loadWallet", "purchaseGetEvent", "getParams", "send"}
                \/ pc[t] = "confirm" /\ pc'[t] = "confirm" )
           => UNCHANGED <<cacheVars, lastTransaction>> ]_vars

C4_Witness ==
  /\ AllIdle
  /\ writes = 1 /\ reads = 0
  /\ result # None /\ ~result[1].ok /\ result[1].msg = TimeoutMsg
  /\ error = Some(TimeoutMsg)
  /\ lastTransaction = None

\* C5: a read/refresh store action always resolves, whatever the outcome of
\* its ledger reads.
C5_ReadsNeverReject ==
  [][ /\ \A t \in Tasks :
           ( loc[t].kind = "read" /\ Finishes(t) )
           => /\ result' # None
              /\ result'[1].ok
              /\ result'[1].act = loc[t].act
      /\ ( result' # None
             /\ result'[1].act \notin WriteActs \cup {"createWallet", "importWallet"} )
         => result'[1].ok ]_vars

\* getTreasuryBalance resolved with 0 although the treasury holds funds: its
\* read failed
C5_Witness ==
  /\ store = "dao"
  /\ result # None /\ result[1].act = "getTreasuryBalance"
  /\ result = Resolved("getTreasuryBalance", Some(0))
  /\ daoApp.balance > 0
  /\ AllIdle

\* C6: a read/refresh action leaves every cached value of its store as it
\* was when a ledger read of it fails.
C6_FailedReadKeepsCache ==
  [][ \A t \in Tasks :
        ( /\ loc[t].io = "fail"
          /\ pc[t] # "purchaseGetEvent"
          /\ pc'[t] # pc[t] )
        => UNCHANGED <<treasuryState, splitState, memberState, activeCampaigns,
                       campaigns, userDonations, stats, events, userTickets,
                       proposals>> ]_vars

\* C7: campaigns, events and proposals hold at most one entry per id, and a
\* step of fetchCampaign, fetchEvent or fetchProposal leaves its collection
\* as it was or replaces the entry of its id in place or appends it, the
\* entries of other ids unchanged.
C7_UpsertById ==
  [][ /\ NoDup(campaigns') /\ NoDup(events') /\ NoDup(proposals')
      /\ \A t \in Tasks :
           /\ ( pc[t] = "fetchCampaign" /\ Moves(t) )
              => IsUpsertOf(campaigns, campaigns', loc[t].id)
           /\ ( pc[t] = "fetchEvent" /\ Moves(t) )
              => IsUpsertOf(events, events', loc[t].id)
           /\ ( pc[t] = "fetchProposal" /\ Moves(t) )
              => IsUpsertOf(proposals, proposals', loc[t].id) ]_vars

\* the ticket of event 0 was bought after the events were listed: its entry
\* was replaced where it was
C7_Witness ==
  /\ store = "ticket"
  /\ Len(events) = 2
  /\ events[1].id = 0 /\ events[1].soldTickets = 1
  /\ events[2].id = 1 /\ events[2].soldTickets = 0
  /\ result # None /\ result[1].act = "purchaseTicket" /\ result[1].ok

\* C8: what donate and purchaseTicket hand to the node is nothing, or one
\* submission holding the signed payment followed by the signed application
\* call, both of one group; they never wait on the node having handed it
\* less.
C8_PaymentAndCallTogether ==
  \A t \in Tasks :
    loc[t].act \in {"donate", "purchaseTicket"} =>
      /\ pc[t] \in {"send", "confirm"} \/ loc[t].nested => loc[t].blob # <<>>
      /\ \/ loc[t].blob = <<>> /\ loc[t].sent = <<>>
         \/ /\ Len(loc[t].sent) = 2
            /\ Len(loc[t].txns) = 2
            /\ loc[t].txns[1].type = PayCode
            /\ loc[t].txns[2].type = ApplCode
            /\ loc[t].txns[1].grp # <<>>
            /\ loc[t].txns[1].grp = loc[t].txns[2].grp
            /\ loc[t].sent[1][1] = PayCode
            /\ loc[t].sent[2][1] = ApplCode
            /\ Len(loc[t].blob) = Len(loc[t].sent[1]) + Len(loc[t].sent[2])
            /\ SubSeq(loc[t].blob, 1, Len(loc[t].sent[1])) = loc[t].sent[1]
            /\ SubSeq(loc[t].blob, Len(loc[t].sent[1]) + 1, Len(loc[t].blob))
                 = loc[t].sent[2]

C8_Witness ==
  \E t \in Tasks :
    /\ loc[t].act = "donate"
    /\ pc[t] = "confirm"
    /\ Len(loc[t].sent) = 2

\* C9: in every group the client builds, the group id on each member is the
\* digest of the members as built, in order; each member is signed with the
\* id on it; and the bytes submitted are the signed members end to end in
\* the order they were grouped, payment first, their length the sum of the
\* members' lengths.
C9_GroupOrder ==
  \A t \in Tasks :
    Len(loc[t].txns) >= 2 =>
      LET txns == loc[t].txns
          built == [k \in 1..Len(txns) |-> [txns[k] EXCEPT !.grp = <<>>]]
          secretKey == getSecretKeyFromMnemonic(loc[t].wallet[1].mnemonic)
      IN /\ Len(txns) <= 16
         /\ \A k \in 1..Len(txns) : txns[k].grp = computeGroupID(built)
         /\ Len(loc[t].sent) = Len(txns)
         /\ \A k \in 1..Len(txns) :
              loc[t].sent[k] = signTransaction(txns[k], secretKey)
         /\ txns[1].type = PayCode /\ txns[Len(txns)].type = ApplCode
         /\ loc[t].blob = Concat(loc[t].sent)
         /\ Len(loc[t].blob) = SumSeq([k \in 1..Len(txns) |-> Len(loc[t].sent[k])])

C9_Witness ==
  \E t \in Tasks :
    /\ loc[t].act = "purchaseTicket"
    /\ pc[t] = "send"
    /\ Len(loc[t].txns) = 2
    /\ loc[t].blob # <<>>

\* C10: a donate the ledger confirms records a TransactionResult with
\* confirmed = true, adds the amount to the ledger's raised amount of the
\* campaign and starts the re-fetch of that campaign; the ledger's raised
\* amounts never decrease; and when the read of the re-fetch succeeds,
\* donate resolves with that result and the cached campaign of that id holds
\* the raised amount the read returned.
C10_DonateRefetch ==
  [][ /\ \A i \in Slots : fundApp'.camp[i].raised >= fundApp.camp[i].raised
      /\ \A t \in Tasks :
           /\ ( /\ loc[t].act = "donate" /\ pc[t] = "confirm"
                /\ pc'[t] # "confirm" /\ pc'[t] # "idle" )
              => /\ lastTransaction' # None
                 /\ lastTransaction'[1].confirmed
                 /\ loc'[t].txres = lastTransaction'
                 /\ fundApp'.camp[loc[t].id].raised
                      = fundApp.camp[loc[t].id].raised + loc[t].amt
                 /\ pc'[t] = "fetchCampaign"
                 /\ loc'[t].id = loc[t].id
                 /\ loc'[t].io = "pending"
           /\ ( /\ loc[t].act = "donate" /\ Finishes(t)
                /\ pc[t] = "fetchCampaign" /\ loc[t].io = "ok" )
              => /\ result' = Resolved("donate", loc[t].txres)
                 /\ loc[t].txres[1].confirmed
                 /\ \E k \in 1..Len(campaigns') :
                      /\ campaigns'[k].id = loc[t].id
                      /\ campaigns'[k].raised
                           = loc[t].snap[1].camp[loc[t].id].raised ]_vars

C10_Witness ==
  /\ store = "fund"
  /\ AllIdle
  /\ result # None /\ result[1].act = "donate" /\ result[1].ok
  /\ result[1].value # None /\ result[1].value[1].confirmed
  /\ \E k \in 1..Len(campaigns) :
       /\ campaigns[k].raised > 0
       /\ campaigns[k].raised = fundApp.camp[campaigns[k].id].raised

\* C10 as stated: whenever donate resolves, the cached campaign of that id
\* holds the ledger's raised amount.
C10_Original ==
  [][ \A t \in Tasks :
        ( /\ loc[t].act = "donate" /\ Finishes(t)
          /\ result' # None /\ result'[1].ok )
        => /\ result'[1].value # None
           /\ result'[1].value[1].confirmed
           /\ \E k \in 1..Len(campaigns') :
                /\ campaigns'[k].id = loc[t].id
                /\ campaigns'[k].raised = fundApp'.camp[loc[t].id].raised ]_vars


\* the write actions that end with a dependent re-fetch
RefetchActs ==
  {"addExpense", "markSettled", "addSigner", "createProposal", "approveProposal",
   "executeProposal", "deposit", "createEvent", "purchaseTicket", "createCampaign",
   "donate", "claimFunds", "cancelCampaign"}

\* C11: every write action that has a dependent re-fetch issues that
\* re-fetch's read in the step in which its own submitted transaction is
\* confirmed, not earlier; and a step of a write action changes a cached
\* entity or lastTransaction only at or after that confirmation.
C11_RefetchAfterConfirmation ==
  [][ \A t \in Tasks :
        /\ ( loc[t].kind = "write" /\ loc[t].act \in RefetchActs )
           => loc[t].refetch # "none"
        /\ ( loc'[t].kind = "write" /\ loc'[t].nested /\ ~loc[t].nested )
           => /\ pc[t] = "confirm" /\ loc[t].rounds > 0
              /\ loc[t].sent # <<>> /\ loc[t].blob # <<>>
              /\ Accepts(loc[t].act, loc[t].id)
              /\ lastTransaction' = loc'[t].txres
              /\ lastTransaction'[1].confirmed
              /\ pc'[t] = FirstLabel(loc[t].refetch)
              /\ loc'[t].io = "pending"
        /\ ( /\ loc[t].kind = "write" /\ Moves(t)
             /\ \/ cacheVars' # cacheVars
                \/ lastTransaction' # lastTransaction )
           => /\ loc[t].sent # <<>>
              /\ \/ pc[t] = "confirm" /\ loc[t].rounds > 0
                 \/ loc[t].nested ]_vars

\* deposit has been confirmed, the treasury holds the amount, and the
\* re-fetch of the treasury state is waiting for the node
C11_Witness ==
  /\ store = "dao"
  /\ \E t \in Tasks :
       /\ loc[t].act = "deposit" /\ loc[t].nested
       /\ pc[t] = "getTreasuryState" /\ loc[t].io = "pending"
       /\ lastTransaction = loc[t].txres
  /\ daoApp.balance > InitDaoApp.balance


\* what getCampaign returns for campaign 0 of the ledger as it is, read now
CampaignNow(nowv) == getCampaign([io |-> "ok", snap |-> Some(fundApp)], 0, nowv)

\* C12: the status of the campaign getCampaign returns is CANCELLED when the
\* cancellation flag is set; otherwise SUCCESSFUL when raised >= goal;
\* otherwise FAILED when now > deadline; otherwise ACTIVE; and the status a
\* fetch caches is that of the state it read at the time it returns.
C12_StatusPrecedence ==
  [][ /\ \A t \in Tasks :
           ( /\ pc[t] = "fetchCampaign" /\ loc[t].io = "ok" /\ Finishes(t)
             /\ loc[t].snap[1].camp[loc[t].id].titled )
           => LET c == loc[t].snap[1].camp[loc[t].id]
                  got == CHOOSE e \in {campaigns'[k] : k \in 1..Len(campaigns')} :
                           e.id = loc[t].id
              IN /\ c.cancelled => got.status = CANCELLED
                 /\ (~c.cancelled /\ c.raised >= c.goal) => got.status = SUCCESSFUL
                 /\ (~c.cancelled /\ c.raised < c.goal /\ now > c.deadline)
                      => got.status = FAILED
                 /\ (~c.cancelled /\ c.raised < c.goal /\ now <= c.deadline)
                      => got.status = ACTIVE
      /\ fundApp.camp[0].titled =>
           LET c == fundApp.camp[0] IN
           CampaignNow(now)[1].status =
             ( IF c.cancelled THEN CANCELLED
               ELSE IF c.raised >= c.goal THEN SUCCESSFUL
               ELSE IF now > c.deadline THEN FAILED ELSE ACTIVE ) ]_vars

\* a campaign with goal zero, past its deadline, was fetched and is cached
\* as SUCCESSFUL
C12_Witness ==
  /\ store = "fund" /\ AllIdle
  /\ fundApp.camp[0].goal = 0 /\ ~fundApp.camp[0].cancelled
  /\ now > fundApp.camp[0].deadline
  /\ Len(campaigns) = 1 /\ campaigns[1].id = 0 /\ campaigns[1].status = SUCCESSFUL

\* C13: with the ledger fixed, a second of the clock passing leaves the
\* derived status of a campaign as it was, or takes it from ACTIVE to FAILED
\* exactly when the clock passes from at most the deadline to beyond it with
\* raised < goal; CANCELLED, SUCCESSFUL and FAILED never change with the
\* clock, so the status changes at most once.
C13_DeadlineCrossing ==
  [][ ( now' > now /\ fundApp' = fundApp /\ fundApp.camp[0].titled )
      => LET c == fundApp.camp[0]
             before == CampaignNow(now)[1].status
             after == CampaignNow(now')[1].status
         IN /\ before # ACTIVE => after = before
            /\ after # before
                 => /\ before = ACTIVE /\ after = FAILED
                    /\ now <= c.deadline /\ c.deadline < now'
                    /\ c.raised < c.goal /\ ~c.cancelled
            /\ ( /\ before = ACTIVE /\ now <= c.deadline /\ c.deadline < now' )
                 => after = FAILED ]_vars

\* the campaign was fetched as ACTIVE before its deadline and the clock has
\* since passed the deadline: it now derives as FAILED
C13_Witness ==
  /\ store = "fund"
  /\ fundApp.camp[0].titled
  /\ now = fundApp.camp[0].deadline + 1
  /\ CampaignNow(now)[1].status = FAILED
  /\ Len(activeCampaigns) = 1 /\ activeCampaigns[1].id = 0
  /\ activeCampaigns[1].status = ACTIVE


\* the entry of id in a cached collection, None when it has none
Cached(list, id) ==
  IF \E k \in 1..Len(list) : list[k].id = id
  THEN Some(list[CHOOSE k \in 1..Len(list) : list[k].id = id])
  ELSE None

\* C14: over a ledger no one writes to, a getCampaign or getEvent whose
\* ledger read succeeds returns an entity equal to the one an earlier
\* successful call returned for that id, except that a campaign's status is
\* derived anew from the clock: it differs only as ACTIVE then, FAILED now,
\* the clock having passed the deadline in between.
C14_RepeatedRead ==
  [][ \A t \in Tasks :
        /\ ( /\ pc[t] = "fetchCampaign" /\ loc[t].io = "ok" /\ Finishes(t)
             /\ Cached(campaigns, loc[t].id) # None )
           => LET old == Cached(campaigns, loc[t].id)[1]
                  new == getCampaign(loc[t], loc[t].id, now)
              IN /\ new # None
                 /\ [new[1] EXCEPT !.status = old.status] = old
                 /\ \/ new[1].status = old.status
                    \/ /\ old.status = ACTIVE /\ new[1].status = FAILED
                       /\ now > new[1].deadline
                 /\ Cached(campaigns', loc[t].id) = new
        /\ ( /\ pc[t] = "fetchEvent" /\ loc[t].io = "ok" /\ Finishes(t)
             /\ Cached(events, loc[t].id) # None )
           => /\ getEvent(loc[t], loc[t].id) = Cached(events, loc[t].id)
              /\ events' = events ]_vars

\* campaign 0 was fetched twice, before and after its deadline: the first
\* call returned it ACTIVE, the second FAILED, all else equal
C14_Witness ==
  /\ store = "fund" /\ AllIdle /\ reads = MaxReads
  /\ Cached(campaigns, 0) # None /\ Cached(activeCampaigns, 0) # None
  /\ Cached(campaigns, 0)[1].status = FAILED
  /\ Cached(activeCampaigns, 0)[1].status = ACTIVE
  /\ [Cached(campaigns, 0)[1] EXCEPT !.status = ACTIVE] = Cached(activeCampaigns, 0)[1]

\* C14 as stated: a getCampaign or getEvent over an unwritten ledger returns
\* an entity equal to the one the earlier call returned.
C14_Original ==
  [][ \A t \in Tasks :
        /\ ( /\ pc[t] = "fetchCampaign" /\ Finishes(t)
             /\ Cached(campaigns, loc[t].id) # None )
           => getCampaign(loc[t], loc[t].id, now) = Cached(campaigns, loc[t].id)
        /\ ( /\ pc[t] = "fetchEvent" /\ Finishes(t)
             /\ Cached(events, loc[t].id) # None )
           => getEvent(loc[t], loc[t].id) = Cached(events, loc[t].id) ]_vars


\* C15: when the global state was read, getCampaign(id) returns a campaign
\* exactly when key campaign_<id>_title is in it and getEvent(id) an event
\* exactly when key event_<id>_name is in it; each returns the entity of the
\* id asked for, and absent otherwise
C15_DefiningKey ==
  LET globalState == getAppGlobalState(appInfo) IN
  (decoded # None /\ decoded.op \in {"getCampaign", "getEvent"}
     /\ ~globalState.threw)
  => LET key == IF decoded.op = "getCampaign"
                THEN "campaign_" \o ToString(decoded.id) \o "_title"
                ELSE "event_" \o ToString(decoded.id) \o "_name"
     IN /\ (decoded.out # None) <=> (key \in DOMAIN globalState.state)
        /\ decoded.out # None => decoded.out[1].id = decoded.id

\* a campaign whose title is the empty byte string was returned
C15_Witness ==
  /\ decoded # None /\ decoded.op = "getCampaign" /\ decoded.out # None
  /\ getAppGlobalState(appInfo).state["campaign_0_title"].bytes = <<>>


\* C16: every numeric field of a decoded campaign, event or treasury whose
\* key is absent from the fetched global state is zero
C16_NumericDefaultsZero ==
  LET globalState == getAppGlobalState(appInfo)
      ZeroIfAbsent(key, field) ==
        key \notin DOMAIN globalState.state => field = 0
  IN (decoded # None
        /\ decoded.op \in {"getCampaign", "getEvent", "getTreasuryState"}
        /\ decoded.out # None)
     => LET e == decoded.out[1]
            n == ToString(decoded.id)
        IN CASE decoded.op = "getCampaign" ->
                  /\ ZeroIfAbsent("campaign_" \o n \o "_goal", e.goal)
                  /\ ZeroIfAbsent("campaign_" \o n \o "_raised", e.raised)
                  /\ ZeroIfAbsent("campaign_" \o n \o "_deadline", e.deadline)
             [] decoded.op = "getEvent" ->
                  /\ ZeroIfAbsent("event_" \o n \o "_price", e.price)
                  /\ ZeroIfAbsent("event_" \o n \o "_sold", e.soldTickets)
             [] decoded.op = "getTreasuryState" ->
                  /\ ZeroIfAbsent("threshold", e.threshold)
                  /\ ZeroIfAbsent("signer_count", e.signerCount)
                  /\ ZeroIfAbsent("proposal_count", e.proposalCount)


\* C19: getAppGlobalState and getAppLocalState decode a response to the map
\* they decode from the same entries given as raw byte arrays under the
\* camelCase field names, whichever encoding each key and byte-string value
\* and whichever field names the response uses
C19_EncodingIndependent ==
  LET Only(fields) == fields[CHOOSE f \in DOMAIN fields : TRUE]
      AsRaw(items) ==
        [i \in 1..Len(items) |->
           [key |-> Raw(items[i].key.bytes),
            value |-> Some([type |-> items[i].value[1].type,
                            bytes |-> Raw(items[i].value[1].bytes.bytes),
                            uint |-> items[i].value[1].uint])]]
      items == IF appInfo.kind = "app" THEN Only(appInfo.fields)
               ELSE Only(Only(appInfo.fields)[1].fields)
      canonical ==
        IF appInfo.kind = "app"
        THEN getAppGlobalState(
               [kind |-> "app", fields |-> ("globalState" :> AsRaw(items))])
        ELSE getAppLocalState(
               [kind |-> "account",
                fields |-> ("appsLocalState" :>
                              << [id |-> Only(appInfo.fields)[1].id,
                                  fields |-> ("keyValue" :> AsRaw(items))] >>)],
               soulboundTicketAppId)
  IN (decoded # None
        /\ decoded.op \in {"getAppGlobalState", "getAppLocalState"}
        /\ \A i \in 1..Len(items) : ~ItemThrows(items[i]))
     => decoded.out = canonical


\* C20: getAppGlobalState and getAppLocalState do not reject because of an
\* entry that cannot be decoded: they return a map holding every entry of
\* the fetched state that can be
C20_MalformedSkipped ==
  LET Only(fields) == fields[CHOOSE f \in DOMAIN fields : TRUE]
      items == IF appInfo.kind = "app" THEN Only(appInfo.fields)
               ELSE IF Only(appInfo.fields)[1].id = soulboundTicketAppId
               THEN Only(Only(appInfo.fields)[1].fields)
               ELSE <<>>
  IN (decoded # None
        /\ decoded.op \in {"getAppGlobalState", "getAppLocalState"})
     => /\ ~decoded.out.threw
        /\ \A i \in 1..Len(items) :
             ~ItemThrows(items[i])
             => keyStrOf(items[i]) \in DOMAIN decoded.out.state


\* C17: when disconnect settles, the persisted wallet record is gone, so
\* that loading the wallet yields absent, and the wallet store holds no
\* address and a balance of 0
C17_DisconnectDeletes ==
  [][ (result' # None /\ result'[1].act = "disconnect")
      => (walletRecord' = None /\ address' = None /\ balance' = 0) ]_vars


RECURSIVE TextOf(_)
TextOf(str) == IF str = <<>> THEN "" ELSE Head(str) \o TextOf(Tail(str))

\* C21: the title argument createCampaign sends is at most 32 bytes long and
\* the description argument at most 64 bytes long, whatever the strings given
C21_TruncatedToByteLimit ==
  (decoded # None /\ decoded.op = "createCampaign")
  => /\ Len(decoded.out.appArgs[1]) <= 32
     /\ Len(decoded.out.appArgs[2]) <= 64


\* C22: getCampaign of a campaign just created returns the goal given to
\* createCampaign and, for a title that fits the length limit untruncated,
\* the title given
C22_CreateReadRoundTrip ==
  [][ ( /\ decoded # None /\ decoded.op = "createCampaign"
        /\ Len(TextEncoderEncode(decoded.out.title)) <= 32
        /\ decoded'.op = "getCampaign" /\ decoded'.id = 0 )
      => /\ decoded'.out # None
         /\ decoded'.out[1].goal = decoded.out.goal
         /\ decoded'.out[1].title = TextOf(decoded.out.title) ]_vars



\* C23: a write action in flight eventually settles, resolving with its
\* TransactionResult or rejecting with a message; while it waits for the
\* confirmation it has at most confirmationRounds rounds left, and once
\* they have passed its next step is the rejection with the timeout
C23_WritesComplete ==
  /\ \A t \in Tasks :
       (pc[t] # "idle" /\ loc[t].kind = "write") ~> (pc[t] = "idle")
  /\ [](\A t \in Tasks :
          pc[t] = "confirm" => loc[t].rounds \in 0..confirmationRounds)
  /\ [][ \A t \in Tasks :
           /\ (Finishes(t) /\ loc[t].kind = "write")
              => /\ result' # None
                 /\ IF result'[1].ok
                    THEN /\ result'[1].value # None
                         /\ result'[1].value[1].txId = loc[t].op
                    ELSE result'[1].msg # ""
           /\ (pc[t] = "confirm" /\ loc[t].rounds = 0 /\ Moves(t))
              => /\ Finishes(t)
                 /\ result' = Rejected(loc[t].act, TimeoutMsg) ]_vars

C23_Witness ==
  \E t \in Tasks : pc[t] = "confirm" /\ loc[t].rounds = 0



\* C24: every entry of activeCampaigns has status ACTIVE, and a campaign
\* held in both activeCampaigns and campaigns is the same entity in both
C24_ActiveConsistent ==
  /\ \A k \in 1..Len(activeCampaigns) : activeCampaigns[k].status = ACTIVE
  /\ \A j \in 1..Len(campaigns), k \in 1..Len(activeCampaigns) :
       campaigns[j].id = activeCampaigns[k].id => campaigns[j] = activeCampaigns[k]



\* C25: getUserTickets returns one ticket for each key ticket_<eventId> of
\* the local state and no other, and getUserDonations one donation for each
\* key donation_<campaignId>_<donationId> and no other
C25_OneEntryPerRecord ==
  LET Records(head, len) ==
        {i \in 1..Len(appInfo) :
           appInfo[i].key[1] = head /\ Len(appInfo[i].key) = len}
  IN /\ (decoded # None /\ decoded.op = "getUserTickets")
        => /\ Len(decoded.out) = Cardinality(Records("ticket", 2))
           /\ \A i \in Records("ticket", 2) :
                Cardinality({k \in 1..Len(decoded.out) :
                               decoded.out[k].eventId = parseInt(appInfo[i].key[2])}) = 1
     /\ (decoded # None /\ decoded.op = "getUserDonations")
        => /\ Len(decoded.out) = Cardinality(Records("donation", 3))
           /\ \A i \in Records("donation", 3) :
                Cardinality({k \in 1..Len(decoded.out) :
                               /\ decoded.out[k].campaignId = parseInt(appInfo[i].key[2])
                               /\ decoded.out[k].id = parseInt(appInfo[i].key[3])}) = 1



\* C26: isLoading is true in every state in which a write action of the
\* store is in flight
C26_LoadingWhileWriting ==
  (\E t \in Tasks : pc[t] # "idle" /\ loc[t].act \in WriteActs) => isLoading



\* C27: a refresh that completes when the cache already holds the entity as
\* the ledger has it - the data of a read no older than its own - leaves
\* that entry as it is: the cache does not go back to an older snapshot
C27_NoRegression ==
  [][ \A t \in Tasks :
        /\ ( /\ pc[t] = "fetchCampaign" /\ loc[t].io = "ok" /\ Finishes(t)
             /\ Cached(campaigns, loc[t].id) # None
             /\ Cached(campaigns, loc[t].id)
                  = getCampaign([io |-> "ok", snap |-> Some(fundApp)], loc[t].id, now) )
           => Cached(campaigns', loc[t].id) = Cached(campaigns, loc[t].id)
        /\ ( /\ pc[t] = "fetchEvent" /\ loc[t].io = "ok" /\ Finishes(t)
             /\ Cached(events, loc[t].id) # None
             /\ Cached(events, loc[t].id)
                  = getEvent([io |-> "ok", snap |-> Some(ticketApp)], loc[t].id) )
           => Cached(events', loc[t].id) = Cached(events, loc[t].id) ]_vars



\* C28: a write action whose transaction was confirmed resolves, when its
\* dependent re-fetch ends, with its TransactionResult, confirmed, which is
\* lastTransaction, and error stays null - whether the re-fetch read the
\* ledger or failed
C28_RefetchFailureTolerated ==
  [][ \A t \in Tasks :
        (loc[t].kind = "write" /\ loc[t].nested /\ Finishes(t))
        => /\ result' = Resolved(loc[t].act, loc[t].txres)
           /\ loc[t].txres # None /\ loc[t].txres[1].confirmed
           /\ lastTransaction' = loc[t].txres
           /\ error' = None ]_vars

\* a donation resolved although its re-fetch failed: the ledger has the
\* amount, the cache no campaign
C28_Witness ==
  /\ store = "fund" /\ AllIdle
  /\ result # None /\ result[1].act = "donate" /\ result[1].ok
  /\ lastTransaction = result[1].value /\ error = None
  /\ campaigns = <<>>
  /\ \E i \in Slots : fundApp.camp[i].raised > 0



\* C29: purchaseTicket goes on to build its group only from an answered
\* read of the event, and the payment it builds is of that event's price;
\* it rejects with 'Event not found' with nothing submitted, and only when
\* the ledger has no such event
C29_PurchaseReadsEvent ==
  [][ \A t \in Tasks :
        loc[t].act = "purchaseTicket"
        => /\ (pc[t] = "purchaseGetEvent" /\ pc'[t] = "getParams")
              => /\ loc[t].io = "ok"
                 /\ loc'[t].amt = loc[t].snap[1].ev[loc[t].id].price
           /\ (pc[t] = "getParams" /\ pc'[t] = "send")
              => /\ Len(loc'[t].txns) = 2
                 /\ loc'[t].txns[1].type = PayCode
                 /\ loc'[t].txns[1].amt = loc[t].amt
           /\ (Finishes(t) /\ result' = Rejected("purchaseTicket", EventNotFoundMsg))
              => /\ loc[t].sent = <<>>
                 /\ ~ticketApp.ev[loc[t].id].named ]_vars



\* C30: when no call of the wallet service is in flight, its current
\* account is null or is the persisted wallet record
C30_CurrentAccountPersisted ==
  AllIdle => (currentAccount = None \/ currentAccount = walletRecord)

====
